---- MODULE Spec2Model ----
(***************************************************************************)
(* Figure/table region extraction of the RAG ingestion code                *)
(* (src/src/ingestion): the caption detectors, the region resolvers and    *)
(* the per-document extraction loops of parser.py, pdfParser.py,           *)
(* extractors/image.py and extractors/table.py.                            *)
(*                                                                         *)
(* Text is a sequence of characters, each character a one-element string;  *)
(* the code points outside ASCII that the code's regular expressions treat *)
(* specially are written by their names ("U+212A" is KELVIN SIGN).          *)
(* Coordinates are integers (PDF points); page heights are multiples of 20 *)
(* so that the fractions 0.1, 0.25, 0.3 and 0.4 of a height are exact.     *)
(***************************************************************************)
EXTENDS Integers, Sequences, FiniteSets, TLC

(***************************************************************************)
(* Bounds of the model.                                                    *)
(***************************************************************************)
MaxBlocks == 2

MaxImages == 2

MaxPages == 2

\* the most files of a directory tree
MaxFiles == 2

(***************************************************************************)
(* Characters and the character classes of Python's re module              *)
(* (str patterns, re.IGNORECASE).                                          *)
(***************************************************************************)
UpperCase == <<"A","B","C","D","E","F","G","H","I","J","K","L","M",
               "N","O","P","Q","R","S","T","U","V","W","X","Y","Z">>

LowerCase == <<"a","b","c","d","e","f","g","h","i","j","k","l","m",
               "n","o","p","q","r","s","t","u","v","w","x","y","z">>

AsciiLetters == {UpperCase[i] : i \in 1..26} \cup {LowerCase[i] : i \in 1..26}

AsciiDigits == {"0","1","2","3","4","5","6","7","8","9"}

\* re.IGNORECASE compares characters by their lower case; U+0130 and U+0131
\* fold to "i", U+017F to "s" and U+212A (KELVIN SIGN) to "k".
Fold(c) ==
  IF \E i \in 1..26 : UpperCase[i] = c
    THEN LowerCase[CHOOSE i \in 1..26 : UpperCase[i] = c]
    ELSE IF c \in {"U+0130", "U+0131"} THEN "i"
    ELSE IF c = "U+017F" THEN "s"
    ELSE IF c = "U+212A" THEN "k"
    ELSE c

\* \s, and the characters str.strip() removes
Whitespace == {" ", "\t", "\n"}

\* \d: the decimal digits of Unicode ("U+0663" is ARABIC-INDIC DIGIT THREE)
Digits == AsciiDigits \cup {"U+0663"}

\* [A-Za-z] under re.IGNORECASE: the characters whose fold is in a-z
Letters == AsciiLetters \cup {"U+0130", "U+0131", "U+017F", "U+212A"}

\* [:.]  (and [:.:], the same class)
ColonDot == {":", "."}

\* [-–]
Dash == {"-", "U+2013"}

(***************************************************************************)
(* Regular-expression pieces.  A piece maps a set P of positions (the      *)
(* index of the next unread character, 1..Len(t)+1) to the set of          *)
(* positions at which it can end.                                          *)
(***************************************************************************)
Lit(t, P, lit) ==
  { p + Len(lit) : p \in { q \in P : /\ q + Len(lit) - 1 <= Len(t)
                                    /\ \A i \in 1..Len(lit) :
                                         Fold(t[q + i - 1]) = Fold(lit[i]) } }

\* cls* , cls+ and one character of the class cls
Star(t, P, cls) ==
  UNION { { q \in p..(Len(t) + 1) : \A k \in p..(q - 1) : t[k] \in cls } : p \in P }

Plus(t, P, cls) ==
  UNION { { q \in (p + 1)..(Len(t) + 1) : \A k \in p..(q - 1) : t[k] \in cls } : p \in P }

One(t, P, cls) == { p + 1 : p \in { q \in P : q <= Len(t) /\ t[q] \in cls } }

\* $ without re.MULTILINE: the end of the text, or just before a final newline
AtEnd(t, P) == { p \in P : p = Len(t) + 1 \/ (p = Len(t) /\ t[p] = "\n") }

\* str.strip()
RECURSIVE LStrip(_)
LStrip(t) == IF t # <<>> /\ Head(t) \in Whitespace THEN LStrip(Tail(t)) ELSE t

RECURSIVE RStrip(_)
RStrip(t) ==
  IF t # <<>> /\ t[Len(t)] \in Whitespace THEN RStrip(SubSeq(t, 1, Len(t) - 1)) ELSE t

Strip(t) == RStrip(LStrip(t))

(***************************************************************************)
(* The caption patterns.                                                   *)
(***************************************************************************)
kFigure == <<"F","i","g","u","r","e">>

kFigDot == <<"F","i","g",".">>

kFig == <<"F","i","g">>

kTable == <<"T","a","b","l","e">>

\* the value of a failed re.search / re.match group (a group is never empty)
NoMatch == <<>>

Unknown == <<"u","n","k","n","o","w","n">>

\* (Figure|Fig\.?)
FigureKeyword == {kFigure, kFigDot, kFig}

\* (Figure|Fig\.)
FigureKeywordDotted == {kFigure, kFigDot}

\* (Table)
TableKeyword == {kTable}

\* an alternation of keywords at the positions P
Keyword(t, P, kws) == UNION { Lit(t, P, kw) : kw \in kws }

\* ^KW\s+\d+ : the positions after the digits
AfterNumber(t, kws) == Plus(t, Plus(t, Keyword(t, {1}, kws), Whitespace), Digits)

\* any(re.match(pattern, text, re.IGNORECASE) for pattern in patterns), for the
\* five patterns of a keyword
MatchesCaptionPatterns(t, kws) ==
  LET n == AfterNumber(t, kws)
  IN  \/ One(t, Star(t, n, Whitespace), ColonDot) # {}                   \* KW\s+\d+\s*[:.]
      \/ One(t, Star(t, n, Whitespace), Dash) # {}                       \* KW\s+\d+\s*[-–]
      \/ AtEnd(t, n) # {}                                               \* KW\s+\d+$
      \/ AtEnd(t, One(t, n, Letters)) # {}                             \* KW\s+\d+[A-Za-z]$
      \/ One(t, Star(t, One(t, n, Letters), Whitespace), ColonDot) # {} \* KW\s+\d+[A-Za-z]\s*[:.]

\* the end of the longest run of cls characters that starts at p
GreedyEnd(t, p, cls) ==
  CHOOSE q \in Star(t, {p}, cls) : \A r \in Star(t, {p}, cls) : r <= q

\* \s*(\d+[A-Za-z]?) read at position k: the group, or NoMatch
OrdinalDigitsOnly(t, k) ==
  LET a == GreedyEnd(t, k, Whitespace)
      b == GreedyEnd(t, a, Digits)
  IN  IF b = a THEN NoMatch ELSE SubSeq(t, a, b - 1)

\* \s*(\d+[A-Za-z]*): every letter that follows the digits
OrdinalLetterRun(t, k) ==
  LET a == GreedyEnd(t, k, Whitespace)
      b == GreedyEnd(t, a, Digits)
  IN  IF b = a THEN NoMatch ELSE SubSeq(t, a, GreedyEnd(t, b, Letters) - 1)

\* (\d+[A-Za-z]?) read at position k, without the \s* before it
OrdinalNoBlanks(t, k) ==
  LET b == GreedyEnd(t, k, Digits)
      e == IF b <= Len(t) /\ t[b] \in Letters THEN b ELSE b - 1
  IN  IF b = k THEN NoMatch ELSE SubSeq(t, k, e)

OrdinalGroupAt(t, k) ==
  LET a == GreedyEnd(t, k, Whitespace)
      b == GreedyEnd(t, a, Digits)
      e == IF b <= Len(t) /\ t[b] \in Letters THEN b ELSE b - 1
  IN  IF b = a THEN NoMatch ELSE SubSeq(t, a, e)

\* re.search(r'(K1|K2|..)\s*(\d+[A-Za-z]?)', text, re.IGNORECASE).group(..):
\* the leftmost start, and there the first alternative, that matches
SearchOrdinal(t, kws) ==
  LET hits == { h \in (1..Len(t)) \X (1..Len(kws)) :
                  /\ Lit(t, {h[1]}, kws[h[2]]) # {}
                  /\ OrdinalGroupAt(t, h[1] + Len(kws[h[2]])) # NoMatch }
  IN  IF hits = {} THEN NoMatch
      ELSE LET h == CHOOSE x \in hits : \A y \in hits :
                       \/ x[1] < y[1]
                       \/ (x[1] = y[1] /\ x[2] <= y[2])
           IN  OrdinalGroupAt(t, h[1] + Len(kws[h[2]]))

FigureOrdinal(t) == SearchOrdinal(t, <<kFigure, kFigDot, kFig>>)

TableOrdinal(t) == SearchOrdinal(t, <<kTable>>)

(***************************************************************************)
(* The caption detectors: what one iteration of the block loop decides     *)
(* about the text of a text block.  is_figure / is_table: the block is     *)
(* appended to figure_captions / table_captions, with the ordinal          *)
(* figure_num / table_num; table_tested: the Table test was evaluated.     *)
(***************************************************************************)
NotCaption(tested) ==
  [is_figure |-> FALSE, figure_num |-> NoMatch,
   is_table |-> FALSE, table_num |-> NoMatch, table_tested |-> tested]

FigureCaption(num, tested) ==
  [is_figure |-> TRUE, figure_num |-> num,
   is_table |-> FALSE, table_num |-> NoMatch, table_tested |-> tested]

TableCaption(num) ==
  [is_figure |-> FALSE, figure_num |-> NoMatch,
   is_table |-> TRUE, table_num |-> num, table_tested |-> TRUE]

OrUnknown(m) == IF m # NoMatch THEN m ELSE Unknown

\* the detector without its "continue": the Table test runs for every block
ClassifyCaptionFirstNoContinue(raw) ==
  LET text == Strip(raw)
      fig  == MatchesCaptionPatterns(text, FigureKeyword)
      tab  == MatchesCaptionPatterns(text, TableKeyword)
  IN  [is_figure |-> fig,
       figure_num |-> IF fig THEN OrUnknown(FigureOrdinal(text)) ELSE NoMatch,
       is_table |-> tab,
       table_num |-> IF tab THEN OrUnknown(TableOrdinal(text)) ELSE NoMatch,
       table_tested |-> TRUE]

\* parser.py and pdfParser.py, extract_figures_and_tables
ClassifyCaptionFirst(raw) ==
  LET text == Strip(raw)
  IN  IF MatchesCaptionPatterns(text, FigureKeyword)
        THEN FigureCaption(OrUnknown(FigureOrdinal(text)), FALSE)
      ELSE IF MatchesCaptionPatterns(text, TableKeyword)
        THEN TableCaption(OrUnknown(TableOrdinal(text)))
      ELSE NotCaption(TRUE)

\* extractors/image.py and pdfParser.py, extract_images
ClassifyImageAnchored(raw) ==
  IF AfterNumber(raw, FigureKeywordDotted) # {}
    THEN IF FigureOrdinal(raw) # NoMatch
           THEN FigureCaption(FigureOrdinal(raw), FALSE)
           ELSE NotCaption(FALSE)
  ELSE IF AfterNumber(raw, TableKeyword) # {}
    THEN IF TableOrdinal(raw) # NoMatch
           THEN TableCaption(TableOrdinal(raw))
           ELSE NotCaption(TRUE)
  ELSE NotCaption(TRUE)

\* extractors/table.py, extract_tables
ClassifyTableOnly(raw) ==
  LET text == Strip(raw)
  IN  IF MatchesCaptionPatterns(text, TableKeyword)
        THEN TableCaption(OrUnknown(TableOrdinal(text)))
        ELSE NotCaption(TRUE)

(***************************************************************************)
(* The operations.                                                         *)
(***************************************************************************)
FiguresAndTables == "Parser.extract_figures_and_tables"

FiguresAndTablesPaged == "pdfParser.Parser.extract_figures_and_tables"

Images == "extract_images"

Tables == "TableExtractor.extract_tables"

Operations == {FiguresAndTables, FiguresAndTablesPaged, Images, Tables}

CaptionFirstOps == {FiguresAndTables, FiguresAndTablesPaged}

\* loader.py: the function that reads the text of one PDF
LoadPdf == "loader.Parser._load_pdf"

Classify(o, raw) ==
  IF o \in CaptionFirstOps THEN ClassifyCaptionFirst(raw)
  ELSE IF o = Images THEN ClassifyImageAnchored(raw)
  ELSE ClassifyTableOnly(raw)

\* the Figure test of the detector of an operation (table.py has none)
FigureTest(o, raw) ==
  IF o \in CaptionFirstOps THEN MatchesCaptionPatterns(Strip(raw), FigureKeyword)
  ELSE IF o = Images THEN AfterNumber(raw, FigureKeywordDotted) # {}
  ELSE FALSE

(***************************************************************************)
(* Geometry.  A box is <<x0, y0, x1, y1>>.                                 *)
(***************************************************************************)
Padding == 10

Max(a, b) == IF a >= b THEN a ELSE b

Min(a, b) == IF a <= b THEN a ELSE b

\* page_height * 0.25, * 0.4, * 0.1, * 0.3
Fraction(page_height, percent) == (page_height * percent) \div 100

\* the proximity test of extract_images, against the image's extent y0..y1
NearbyWithinOrAt(c_bbox, y0, y1, page_height) ==
  LET cy0 == c_bbox[2]
      cy1 == c_bbox[4]
      distance_threshold == Fraction(page_height, 25)
  IN  \/ (cy1 <= y0 /\ (y0 - cy1) <= distance_threshold)
      \/ (cy0 >= y1 /\ (cy0 - y1) <= distance_threshold)

IsNearby(c_bbox, y0, y1, page_height) ==
  LET cy0 == c_bbox[2]
      cy1 == c_bbox[4]
      distance_threshold == Fraction(page_height, 25)
  IN  \/ (cy1 <= y0 /\ (y0 - cy1) < distance_threshold)
      \/ (cy0 >= y1 /\ (cy0 - y1) < distance_threshold)

\* the captions of a list that are nearby, in list order
NearbyCaptions(captions, y0, y1, page_height) ==
  LET Test(c) == IsNearby(c.bbox, y0, y1, page_height)
  IN  SelectSeq(captions, Test)

\* the expansion that takes the first nearby caption only
ExpandTopFirstOnly(nearby, y0) ==
  IF nearby = <<>> THEN y0 ELSE Min(y0, Head(nearby).bbox[2])

\* y0 = min(y0, cy0) over the nearby captions, in list order
RECURSIVE ExpandTop(_, _)
ExpandTop(nearby, y0) ==
  IF nearby = <<>> THEN y0
  ELSE ExpandTop(Tail(nearby), Min(y0, Head(nearby).bbox[2]))

\* the expansion that leaves the bottom at the image's own bottom
ExpandBottomImageOnly(nearby, y1) == y1

\* y1 = max(y1, cy1) over the nearby captions, in list order
RECURSIVE ExpandBottom(_, _)
ExpandBottom(nearby, y1) ==
  IF nearby = <<>> THEN y1
  ELSE ExpandBottom(Tail(nearby), Max(y1, Head(nearby).bbox[4]))

\* "Add padding" and "Use full page width" of extract_images
PaddedBoxUsingImageWidth(img_bbox, y0, y1, page_width, page_height) ==
  <<img_bbox[1], Max(0, y0 - Padding), img_bbox[3], Min(page_height, y1 + Padding)>>

PaddedBox(img_bbox, y0, y1, page_width, page_height) ==
  <<0, Max(0, y0 - Padding), page_width, Min(page_height, y1 + Padding)>>

\* the capture box of a Figure caption, extract_figures_and_tables
FigureCaptureBox(caption_bbox, page_width, page_height) ==
  LET cy0 == caption_bbox[2]
      cy1 == caption_bbox[4]
      content_top == Max(0, cy0 - Fraction(page_height, 40))
  IN  <<0, content_top, page_width, cy1 + Padding>>

\* the capture box of a Table caption, extract_figures_and_tables / extract_tables
TableCaptureBox(caption_bbox, page_width, page_height) ==
  LET cy0 == caption_bbox[2]
      cy1 == caption_bbox[4]
      content_top == Max(0, cy0 - Fraction(page_height, 10))
      content_bottom == Min(page_height, cy1 + Fraction(page_height, 30))
  IN  <<0, content_top, page_width, content_bottom>>

(***************************************************************************)
(* The region of one image, extract_images: the nearby captions, the kind, *)
(* the ordinal, the vertical extent before padding and the final box.      *)
(***************************************************************************)
NoResolution ==
  [kind |-> "none", num |-> NoMatch, nearby_figure |-> <<>>,
   table_searched |-> FALSE, nearby_table |-> <<>>,
   top |-> 0, bottom |-> 0, final_bbox |-> <<0, 0, 0, 0>>]

\* the vertical gap between a nearby caption and the image
Gap(c_bbox, img_bbox) ==
  IF c_bbox[4] <= img_bbox[2] THEN img_bbox[2] - c_bbox[4] ELSE c_bbox[2] - img_bbox[4]

\* the region named by the vertically closest nearby caption
ResolvedByClosest(kind, img_bbox, nearby, nearby_figure, table_searched, nearby_table, page_width, page_height) ==
  LET top     == ExpandTop(nearby, img_bbox[2])
      bottom  == ExpandBottom(nearby, img_bbox[4])
      closest == CHOOSE k \in 1..Len(nearby) : \A j \in 1..Len(nearby) :
                   Gap(nearby[k].bbox, img_bbox) <= Gap(nearby[j].bbox, img_bbox)
  IN  [kind |-> kind, num |-> nearby[closest].num, nearby_figure |-> nearby_figure,
       table_searched |-> table_searched, nearby_table |-> nearby_table,
       top |-> top, bottom |-> bottom,
       final_bbox |-> PaddedBox(img_bbox, top, bottom, page_width, page_height)]

Resolved(kind, img_bbox, nearby, nearby_figure, table_searched, nearby_table, page_width, page_height) ==
  LET top    == ExpandTop(nearby, img_bbox[2])
      bottom == ExpandBottom(nearby, img_bbox[4])
  IN  [kind |-> kind, num |-> nearby[1].num, nearby_figure |-> nearby_figure,
       table_searched |-> table_searched, nearby_table |-> nearby_table,
       top |-> top, bottom |-> bottom,
       final_bbox |-> PaddedBox(img_bbox, top, bottom, page_width, page_height)]

\* the resolver with the two caption kinds tried in the other order
ResolveImageTableFirst(img_bbox, figs, tabs, page_width, page_height) ==
  LET nearby_figure == NearbyCaptions(figs, img_bbox[2], img_bbox[4], page_height)
      nearby_table  == NearbyCaptions(tabs, img_bbox[2], img_bbox[4], page_height)
  IN  IF nearby_table # <<>>
        THEN Resolved("table", img_bbox, nearby_table, nearby_figure, TRUE,
                      nearby_table, page_width, page_height)
      ELSE IF nearby_figure # <<>>
        THEN Resolved("figure", img_bbox, nearby_figure, nearby_figure, TRUE,
                      nearby_table, page_width, page_height)
      ELSE [NoResolution EXCEPT !.table_searched = TRUE]

\* the resolver that emits an uncaptioned image as a region of its own
ResolveImageUnknownFallback(img_bbox, figs, tabs, page_width, page_height) ==
  LET nearby_figure == NearbyCaptions(figs, img_bbox[2], img_bbox[4], page_height)
      nearby_table  == NearbyCaptions(tabs, img_bbox[2], img_bbox[4], page_height)
  IN  IF nearby_figure # <<>>
        THEN Resolved("figure", img_bbox, nearby_figure, nearby_figure, FALSE,
                      <<>>, page_width, page_height)
      ELSE IF nearby_table # <<>>
        THEN Resolved("table", img_bbox, nearby_table, <<>>, TRUE,
                      nearby_table, page_width, page_height)
      ELSE [NoResolution EXCEPT
              !.kind = "unknown", !.table_searched = TRUE,
              !.final_bbox = PaddedBox(img_bbox, img_bbox[2], img_bbox[4],
                                       page_width, page_height)]

\* the resolver that looks for Figure captions a second time, around the
\* box already widened by the nearby ones
ResolveImageChained(img_bbox, figs, tabs, page_width, page_height) ==
  LET nearby_figure == NearbyCaptions(figs, img_bbox[2], img_bbox[4], page_height)
      nearby_table  == NearbyCaptions(tabs, img_bbox[2], img_bbox[4], page_height)
      top           == ExpandTop(nearby_figure, img_bbox[2])
      bottom        == ExpandBottom(nearby_figure, img_bbox[4])
      InChain(c)    == \/ IsNearby(c.bbox, img_bbox[2], img_bbox[4], page_height)
                       \/ IsNearby(c.bbox, top, bottom, page_height)
      chained       == SelectSeq(figs, InChain)
  IN  IF nearby_figure # <<>>
        THEN Resolved("figure", img_bbox, chained, chained, FALSE,
                      <<>>, page_width, page_height)
      ELSE IF nearby_table # <<>>
        THEN Resolved("table", img_bbox, nearby_table, <<>>, TRUE,
                      nearby_table, page_width, page_height)
      ELSE [NoResolution EXCEPT !.table_searched = TRUE]

ResolveImage(img_bbox, figs, tabs, page_width, page_height) ==
  LET nearby_figure == NearbyCaptions(figs, img_bbox[2], img_bbox[4], page_height)
      nearby_table  == NearbyCaptions(tabs, img_bbox[2], img_bbox[4], page_height)
  IN  IF nearby_figure # <<>>
        THEN Resolved("figure", img_bbox, nearby_figure, nearby_figure, FALSE,
                      <<>>, page_width, page_height)
      ELSE IF nearby_table # <<>>
        THEN Resolved("table", img_bbox, nearby_table, <<>>, TRUE,
                      nearby_table, page_width, page_height)
      ELSE [NoResolution EXCEPT !.table_searched = TRUE]

\* the box of an image: the first image-info entry of its xref, else the box
\* of the first image block of the page, else none
NoBox == <<>>

RECURSIVE FirstInfoBox(_, _)
FirstInfoBox(image_info, xref) ==
  IF image_info = <<>> THEN NoBox
  ELSE IF Head(image_info).xref = xref THEN Head(image_info).bbox
  ELSE FirstInfoBox(Tail(image_info), xref)

RECURSIVE FirstImageBlockBox(_)
FirstImageBlockBox(bs) ==
  IF bs = <<>> THEN NoBox
  ELSE IF Head(bs).type = 1 THEN Head(bs).bbox
  ELSE FirstImageBlockBox(Tail(bs))

\* the lookup with its two sources in the other order
ImageBBoxBlockFirst(xref, image_info, bs) ==
  IF FirstImageBlockBox(bs) # NoBox
    THEN FirstImageBlockBox(bs)
    ELSE FirstInfoBox(image_info, xref)

ImageBBox(xref, image_info, bs) ==
  IF FirstInfoBox(image_info, xref) # NoBox
    THEN FirstInfoBox(image_info, xref)
    ELSE FirstImageBlockBox(bs)

(***************************************************************************)
(* Output files.  A file name is {kind}_{num}.png, or, in pdfParser.py's   *)
(* extract_figures_and_tables, {kind}_{num}_page{n}.png; page 0 stands for *)
(* a name without a page.                                                  *)
(***************************************************************************)
\* the name without the page, whatever the operation
FileNameWithoutPage(o, kind, num, page_num) == [kind |-> kind, num |-> num, page |-> 0]

FileName(o, kind, num, page_num) ==
  [kind |-> kind, num |-> num,
   page |-> IF o = FiguresAndTablesPaged THEN page_num + 1 ELSE 0]

NoFile == [kind |-> "none", num |-> NoMatch, page |-> 0]

\* a counter that counts every region tried
CountedAttempts(count, result) == count + 1

\* figure_count += 1 / table_count += 1 / img_count += 1: the statement
\* follows the save inside the try block
Counted(count, result) == IF result = "saved" THEN count + 1 ELSE count

\* what the name pix refers to after an iteration: pix = None follows the
\* save and is skipped when the save raises; when get_pixmap raises, or the
\* iteration ends before it, pix is not assigned
PixAfter(p, result) ==
  IF result = "saved" THEN "none"
  ELSE IF result = "save_error" THEN "bound"
  ELSE p

\* a directory where the first save of a name stays and later ones are lost
SavedByKeepFirst(sb, name, o, i) ==
  LET old == {s \in sb : s.name = name}
      me  == [op |-> o, file |-> i]
  IN  IF old = {}
        THEN sb \cup {[name |-> name, holder |-> me, savers |-> {me}]}
        ELSE (sb \ old) \cup {[s EXCEPT !.savers = @ \cup {me}] : s \in old}

\* pix.save(output_filename) of operation o on the PDF of index i of the
\* batch: the file of that name now holds the region of this save (holder),
\* whoever saved it before (savers)
SavedBy(sb, name, o, i) ==
  LET old == {s \in sb : s.name = name}
      me  == [op |-> o, file |-> i]
  IN  (sb \ old) \cup
      {[name |-> name, holder |-> me, savers |-> UNION {s.savers : s \in old} \cup {me}]}

\* a save that does not replace: a name in use gets a suffix
SaveBesideExisting(fs, name, page_num) ==
  IF \E f \in fs : f.name = name
    THEN fs \cup {[name |-> [name EXCEPT !.num = @ \o <<"_", "1">>], page_num |-> page_num]}
    ELSE fs \cup {[name |-> name, page_num |-> page_num]}

\* pix.save(output_filename): the file of that name is created or replaced
Save(fs, name, page_num) ==
  {f \in fs : f.name # name} \cup {[name |-> name, page_num |-> page_num]}

(***************************************************************************)
(* Inputs: what the PDF library hands to the code.                         *)
(***************************************************************************)
\* texts for the detectors
DetectTexts ==
  { <<"F","i","g","u","r","e"," ","1">>,
    <<"F","i","g","u","r","e"," ","1",":"," ","x">>,
    <<"F","i","g","u","r","e"," ","3","A">>,
    <<"F","i","g","u","r","e"," ","3","A",":"," ","x">>,
    <<"F","i","g","u","r","e"," ","3","U+212A",":"," ","x">>,
    <<"F","i","g"," ","1",":"," ","x">>,
    <<" ","F","i","g","u","r","e"," ","1",":"," ","x">>,
    <<"F","i","g","."," ","1",".">>,
    <<"F","i","g","u","r","e"," ","1"," ","U+2013">>,
    <<"F","i","g","u","r","e"," ","1","2","A","B">>,
    <<"F","i","g","u","r","e"," ","1"," ","x">>,
    <<"x">>,
    <<"T","a","b","l","e"," ","1",":"," ","x">>,
    <<"T","a","b","l","e"," ","3","A",":"," ","s","u","m","m","a","r","y">>,
    <<"T","A","B","L","E"," ","3","U+212A">>,
    <<"T","a","b","l","e","3","A",":">>,
    <<"T","a","b","l","e"," ","3","A">> }

TextFigure2 == <<"F","i","g","u","r","e"," ","2",":"," ","r","e","s","u","l","t","s">>

TextFigure1 == <<"F","i","g","u","r","e"," ","1",":"," ","s","e","t","u","p">>

TextTable3A == <<"T","a","b","l","e"," ","3","A",":"," ","s","u","m","m","a","r","y">>

TextPlain == <<"S","e","e"," ","t","e","x","t">>

PageWidths == {600}

PageHeights == {800}

\* boxes of text blocks: a caption just below the image ImageA, the same
\* further right, near the top, within 10 of the bottom of the page, and
\* above the page
CaptionA == <<50, 410, 300, 430>>

CaptionRight == <<350, 410, 550, 430>>

CaptionTop == <<50, 60, 300, 80>>

CaptionBottom == <<50, 780, 300, 795>>

CaptionAbovePage == <<50, -40, 300, -20>>

\* a caption 210 below the image ImageA and 180 below the caption CaptionA
CaptionFar == <<50, 610, 300, 630>>

\* a box of three coordinates: it cannot be unpacked into x0, y0, x1, y1
MalformedBox == <<50, 410, 300>>

\* boxes of images: the image of the scenario, the same further right, at
\* a gap of 199 from the scenario's caption, at a gap of exactly 200 from it
\* (and touching the caption near the top), overlapping it (and 200 below
\* the caption near the top), below the page and above it
ImageA == <<50, 100, 300, 400>>

ImageRight == <<320, 100, 580, 400>>

ImageBelowPage == <<50, 850, 300, 880>>

ImageBoxes ==
  { ImageA, ImageRight, <<50, 110, 300, 211>>, <<50, 80, 300, 210>>,
    <<50, 280, 300, 420>>, ImageBelowPage, <<50, -90, 300, -50>>, MalformedBox }

TextBlock(text, bbox) == [type |-> 0, text |-> text, bbox |-> bbox]

ImageBlock(bbox) == [type |-> 1, text |-> <<>>, bbox |-> bbox]

DetectBlocks == { TextBlock(t, CaptionA) : t \in DetectTexts }

PageBlocks ==
  { TextBlock(TextFigure2, b) :
      b \in {CaptionA, CaptionRight, CaptionTop, CaptionBottom, CaptionAbovePage} }
  \cup { TextBlock(TextTable3A, b) : b \in {CaptionTop, CaptionBottom} }
  \cup { TextBlock(TextPlain, <<50, 500, 550, 600>>), ImageBlock(ImageA) }
  \cup { TextBlock(TextFigure2, MalformedBox), TextBlock(TextFigure1, CaptionTop),
         TextBlock(TextFigure1, CaptionFar) }

\* the blocks of a page after the first: at most one, of a few
LaterPageBlocks ==
  { TextBlock(TextFigure2, CaptionA), TextBlock(TextTable3A, CaptionTop),
    ImageBlock(ImageA) }

SeqsUpTo(S, n) == UNION { [1..k -> S] : k \in 0..n }

\* page_dict["blocks"] of page n: the first page of a document has up to
\* MaxBlocks blocks of PageBlocks, those after the second being the Figure
\* caption of the scenario; a later page has none or one of LaterPageBlocks
BlocksOfPage(n) ==
  IF n = 0
    THEN { bs \in SeqsUpTo(PageBlocks, MaxBlocks) :
             \A k \in 3..Len(bs) : bs[k] = TextBlock(TextFigure2, CaptionA) }
    ELSE {<<>>} \cup { <<b>> : b \in LaterPageBlocks }

\* len(page.get_images(full=True)): up to MaxImages on the first page, at
\* most one on a later page
ImageCounts(n) == IF n = 0 THEN 0..MaxImages ELSE 0..1

\* the boxes of the images of a page after its first image
LaterImageBoxes == { ImageA, <<50, 280, 300, 420>> }

\* page.get_image_info() as the iteration of image xref reads it: no entry,
\* one entry of this image, one entry of another image, or two entries of
\* this image at different boxes; fewer of these for the later images and
\* the later pages
ImageInfosOf(xref, n) ==
  {<<>>}
  \cup { <<[xref |-> xref, bbox |-> b]>> :
           b \in IF xref = 1 /\ n = 0 THEN ImageBoxes
                 ELSE IF xref = 2 /\ n = 0 THEN LaterImageBoxes
                 ELSE {ImageA} }
  \cup { <<[xref |-> xref + 1, bbox |-> ImageA]>> :
           x \in IF xref <= 2 /\ n = 0 THEN {1} ELSE {} }
  \cup { <<[xref |-> xref, bbox |-> ImageA], [xref |-> xref, bbox |-> ImageBelowPage]>> :
           x \in IF xref = 1 /\ n = 0 THEN {1} ELSE {} }

(***************************************************************************)
(* State.                                                                  *)
(***************************************************************************)
VARIABLES
  op,               \* the operation that runs
  pc,               \* where it is
  doc,              \* "none", "open" or "closed"
  num_pages,        \* len(doc)
  page_num,         \* the page index of the page loop
  page,             \* "none" or "loaded": the page object
  page_dict,        \* "none" or "bound": page_dict and the lists made from it
  page_height,
  page_width,
  blocks,           \* page_dict["blocks"]
  block_idx,        \* blocks scanned so far on this page
  figure_captions,
  table_captions,
  tested,           \* indexes of the blocks whose Table test was evaluated
  image_list,       \* page.get_images(full=True), as xrefs
  img_index,        \* images done so far on this page
  cap_index,        \* captions done so far in the current caption loop
  region,           \* the last image or caption processed, and what came of it
  files,            \* the output directory
  figure_count,
  table_count,
  img_count,
  written,          \* the names this run has saved
  pix,              \* "none" or "bound": whether the name pix refers to a pixel buffer
  saved_by,         \* for each file of the directory, the operation and PDF that saved it last
  run,              \* 1, or 2 when the operation runs again on the same PDF
  pdf,              \* the PDF when its content is given beforehand
  first,            \* what the first of two runs left
  variant,          \* the module whose load_from_directory runs
  pdf_files,        \* list(dir_path.glob("**/*.pdf"))
  file_idx,         \* the files of pdf_files done so far
  dir_path,         \* what the path given to load_from_directory is
  lpc,              \* where load_from_directory is
  documents,        \* the list it returns
  stages            \* the calls made so far, as <<file index, callee>>

runVars == <<op, pc, doc, num_pages, page_num, page, page_dict, page_height, page_width,
             blocks, block_idx, figure_captions, table_captions, tested,
             image_list, img_index, cap_index, region, files,
             figure_count, table_count, img_count, written, pix, saved_by>>

twiceVars == <<run, pdf, first>>

loadVars == <<variant, dir_path, pdf_files, file_idx, lpc, documents, stages>>

vars == <<runVars, twiceVars, loadVars>>

\* idx: the position of the image in image_list, or the block index of the caption
NoRegion ==
  [src |-> "none", idx |-> 0, info |-> <<>>, anchor |-> NoBox, res |-> NoResolution,
   outcome |-> "none", file |-> NoFile]

Caption(block, num, idx) == [bbox |-> block.bbox, num |-> num, block_idx |-> idx]

\* the Table captions of a page taken before its Figure captions
AfterScanTablesFirst(o, figs, tabs) ==
  IF o = Images THEN "get_images"
  ELSE IF tabs # <<>> THEN "tables"
  ELSE IF figs # <<>> THEN "figures"
  ELSE "endpage"

\* the phase after the block loop of a page
AfterScan(o, figs, tabs) ==
  IF o = Images THEN "get_images"
  ELSE IF figs # <<>> THEN "figures"
  ELSE IF tabs # <<>> THEN "tables"
  ELSE "endpage"

\* a PDF whose content is not given: every read of it is a free choice
NoPdf == [given |-> FALSE, dir_ok |-> TRUE, opened |-> TRUE, pages |-> <<>>]

NoFirst == [files |-> {}, written |-> {}]

\* the given content of the current page
GivenPage == pdf.pages[page_num + 1]

\* no second run, no given PDF
OnceOnly == run = 1 /\ pdf = NoPdf /\ first = NoFirst

\* load_from_directory does not run
LoaderIdle ==
  /\ variant = "none"
  /\ dir_path = "none"
  /\ pdf_files = <<>>
  /\ file_idx = 0
  /\ lpc = "idle"
  /\ documents = <<>>
  /\ stages = {}

\* what page.get_pixmap and pix.save can do
Outcomes == {"saved", "render_error", "save_error"}

\* the ways the body of a per-region try block ends in its except clause
Failures == {"unpack_error", "render_error", "save_error"}

\* a try block around the image loop, not inside it: an error ends the run
AfterImageAbortOnError(result, i, n) ==
  IF result \in Failures THEN "finally"
  ELSE IF i + 1 = n THEN "endpage" ELSE "images"

\* where extract_images is after iteration i of n of its image loop, whatever
\* the result: the try block is inside the loop
AfterImage(result, i, n) == IF i + 1 = n THEN "endpage" ELSE "images"

\* the same for an iteration of a caption loop, rest being the phase that
\* follows the loop
AfterCaptionAbortOnError(result, i, n, here, rest) ==
  IF result \in Failures THEN "finally"
  ELSE IF i + 1 = n THEN rest ELSE here

AfterCaption(result, i, n, here, rest) == IF i + 1 = n THEN rest ELSE here

(***************************************************************************)
(* The extraction run of one operation on one document.                    *)
(***************************************************************************)
Init ==
  /\ op \in Operations \cup {LoadPdf}
  /\ pc = "start"
  /\ doc = "none"
  /\ num_pages = 0
  /\ page_num = 0
  /\ page = "none"
  /\ page_dict = "none"
  /\ page_height = 0
  /\ page_width = 0
  /\ blocks = <<>>
  /\ block_idx = 0
  /\ figure_captions = <<>>
  /\ table_captions = <<>>
  /\ tested = {}
  /\ image_list = <<>>
  /\ img_index = 0
  /\ cap_index = 0
  /\ region = NoRegion
  /\ files = {}
  /\ figure_count = 0
  /\ table_count = 0
  /\ img_count = 0
  /\ written = {}
  /\ pix = "none"
  /\ saved_by = {}
  /\ OnceOnly
  /\ LoaderIdle

\* os.makedirs(output_dir, exist_ok=True), before the try block: a failure
\* is raised to the caller
MakeDirs ==
  /\ pc = "start"
  /\ op \in Operations
  /\ \E ok \in BOOLEAN :
       /\ pdf.given => ok = pdf.dir_ok
       /\ pc' = IF ok THEN "open" ELSE "raised"
  /\ UNCHANGED <<op, doc, num_pages, page_num, page, page_dict, page_height, page_width,
                 blocks, block_idx, figure_captions, table_captions, tested, image_list,
                 img_index, cap_index, region, files, figure_count, table_count,
                 img_count, written, pix, saved_by>>
  /\ UNCHANGED <<twiceVars, loadVars>>

\* doc = fitz.Document(file_path), and the counters set to 0; a document
\* that cannot be opened leaves doc = None and goes to the finally clause
OpenDoc ==
  /\ pc = "open"
  /\ \E opened \in BOOLEAN, n \in 0..MaxPages :
       /\ pdf.given => (opened = pdf.opened /\ n = Len(pdf.pages))
       /\ IF opened
            THEN /\ doc' = "open"
                 /\ num_pages' = n
                 /\ pc' = IF n = 0 THEN "finish" ELSE "page"
            ELSE /\ doc' = "none"
                 /\ num_pages' = 0
                 /\ pc' = "finally"
  /\ UNCHANGED <<op, page_num, page, page_dict, page_height, page_width, blocks, block_idx,
                 figure_captions, table_captions, tested, image_list, img_index,
                 cap_index, region, files, figure_count, table_count, img_count, written, pix, saved_by>>
  /\ UNCHANGED <<twiceVars, loadVars>>

\* page = doc[page_num]; its size; page_dict = page.get_text("dict"); the
\* caption lists of the page start empty.  A page that cannot be read raises
\* to the except clause of the whole run.
LoadPage ==
  /\ pc = "page"
  /\ \E ok \in BOOLEAN, h \in PageHeights, w \in PageWidths, bs \in BlocksOfPage(page_num) :
       /\ pdf.given => /\ ok = GivenPage.ok
                       /\ h = GivenPage.height
                       /\ w = GivenPage.width
                       /\ bs = GivenPage.blocks
       /\ IF ok
            THEN /\ page_height' = h
                 /\ page_width' = w
                 /\ blocks' = bs
                 /\ pc' = IF bs = <<>> THEN AfterScan(op, <<>>, <<>>) ELSE "scan"
                 /\ page' = "loaded"
                 /\ page_dict' = "bound"
                 /\ block_idx' = 0
                 /\ figure_captions' = <<>>
                 /\ table_captions' = <<>>
                 /\ tested' = {}
                 /\ img_index' = 0
                 /\ cap_index' = 0
            ELSE /\ pc' = "finally"
                 /\ UNCHANGED <<page, page_dict, page_height, page_width, blocks,
                                block_idx, figure_captions, table_captions, tested,
                                img_index, cap_index>>
  /\ UNCHANGED <<op, doc, num_pages, page_num, image_list, region, files,
                 figure_count, table_count, img_count, written, pix, saved_by>>
  /\ UNCHANGED <<twiceVars, loadVars>>

\* one iteration of the block loop
ScanBlock ==
  /\ pc = "scan"
  /\ block_idx < Len(blocks)
  /\ LET block == blocks[block_idx + 1]
         r     == Classify(op, block.text)
         figs  == IF block.type = 0 /\ r.is_figure
                    THEN Append(figure_captions, Caption(block, r.figure_num, block_idx))
                    ELSE figure_captions
         tabs  == IF block.type = 0 /\ r.is_table
                    THEN Append(table_captions, Caption(block, r.table_num, block_idx))
                    ELSE table_captions
     IN  /\ figure_captions' = figs
         /\ table_captions' = tabs
         /\ tested' = IF block.type = 0 /\ r.table_tested
                        THEN tested \cup {block_idx} ELSE tested
         /\ pc' = IF block_idx + 1 = Len(blocks) THEN AfterScan(op, figs, tabs) ELSE "scan"
  /\ block_idx' = block_idx + 1
  /\ UNCHANGED <<op, doc, num_pages, page_num, page, page_dict, page_height, page_width,
                 blocks, image_list, img_index, cap_index, region, files,
                 figure_count, table_count, img_count, written, pix, saved_by>>
  /\ UNCHANGED <<twiceVars, loadVars>>

\* image_list = page.get_images(full=True)
GetImages ==
  /\ pc = "get_images"
  /\ \E n \in ImageCounts(page_num) :
       /\ pdf.given => n = GivenPage.n_images
       /\ image_list' = [i \in 1..n |-> i]
       /\ pc' = IF n = 0 THEN "endpage" ELSE "images"
  /\ img_index' = 0
  /\ UNCHANGED <<op, doc, num_pages, page_num, page, page_dict, page_height, page_width,
                 blocks, block_idx, figure_captions, table_captions, tested,
                 cap_index, region, files, figure_count, table_count, img_count, written, pix, saved_by>>
  /\ UNCHANGED <<twiceVars, loadVars>>

\* x0, y0, x1, y1 = bbox
Unpacks(bbox) == Len(bbox) = 4

\* the unpackings of an iteration of the image loop, in the order of the
\* code: the image's box, the box of every Figure caption, and, when no
\* Figure caption is nearby, the box of every Table caption
ImageUnpackError(img_bbox, figs, tabs, h) ==
  \/ ~Unpacks(img_bbox)
  \/ \E k \in 1..Len(figs) : ~Unpacks(figs[k].bbox)
  \/ /\ NearbyCaptions(figs, img_bbox[2], img_bbox[4], h) = <<>>
     /\ \E k \in 1..Len(tabs) : ~Unpacks(tabs[k].bbox)

\* one iteration of the image loop of extract_images
ProcessImage ==
  /\ pc = "images"
  /\ img_index < Len(image_list)
  /\ \E image_info \in ImageInfosOf(image_list[img_index + 1], page_num) :
       LET xref     == image_list[img_index + 1]
           img_bbox == ImageBBox(xref, image_info, blocks)
           failed   == img_bbox # NoBox
                         /\ ImageUnpackError(img_bbox, figure_captions, table_captions,
                                             page_height)
           res      == IF img_bbox = NoBox \/ failed THEN NoResolution
                       ELSE ResolveImage(img_bbox, figure_captions, table_captions,
                                         page_width, page_height)
           name     == FileName(op, res.kind, res.num, page_num)
           results  == IF img_bbox = NoBox THEN {"no_bbox"}
                       ELSE IF failed THEN {"unpack_error"}
                       ELSE IF res.kind = "none" THEN {"skipped"}
                       ELSE Outcomes
       IN  /\ pdf.given => image_info = GivenPage.image_info
           /\ \E result \in results :
                /\ (pdf.given /\ result \in Outcomes) =>
                     result = GivenPage.outcomes[img_index + 1]
                /\ region' = [src |-> "image", idx |-> img_index, info |-> image_info,
                              anchor |-> img_bbox,
                              res |-> res, outcome |-> result,
                              file |-> IF res.kind = "none" THEN NoFile ELSE name]
                /\ files' = IF result = "saved" THEN Save(files, name, page_num) ELSE files
                /\ written' = IF result = "saved" THEN written \cup {name} ELSE written
                /\ pix' = PixAfter(pix, result)
                /\ saved_by' = IF result = "saved" THEN SavedBy(saved_by, name, op, file_idx)
                               ELSE saved_by
                /\ img_count' = Counted(img_count, result)
                /\ pc' = AfterImage(result, img_index, Len(image_list))
  /\ img_index' = img_index + 1
  /\ UNCHANGED <<op, doc, num_pages, page_num, page, page_dict, page_height, page_width,
                 blocks, block_idx, figure_captions, table_captions, tested,
                 image_list, cap_index, figure_count, table_count>>
  /\ UNCHANGED <<twiceVars, loadVars>>

\* one iteration of the loop over figure_captions
ProcessFigureCaption ==
  /\ pc = "figures"
  /\ cap_index < Len(figure_captions)
  /\ LET caption == figure_captions[cap_index + 1]
         box     == IF Unpacks(caption.bbox)
                      THEN FigureCaptureBox(caption.bbox, page_width, page_height)
                      ELSE NoResolution.final_bbox
         name    == FileName(op, "figure", caption.num, page_num)
         results == IF Unpacks(caption.bbox) THEN Outcomes ELSE {"unpack_error"}
         last    == cap_index + 1 = Len(figure_captions)
     IN  \E outcome \in results :
           /\ (pdf.given /\ outcome \in Outcomes) =>
                outcome = GivenPage.outcomes[cap_index + 1]
           /\ region' = [src |-> "figure_caption", idx |-> caption.block_idx, info |-> <<>>,
                         anchor |-> caption.bbox,
                         res |-> [NoResolution EXCEPT !.kind = "figure",
                                    !.num = caption.num, !.final_bbox = box],
                         outcome |-> outcome, file |-> name]
           /\ files' = IF outcome = "saved" THEN Save(files, name, page_num) ELSE files
           /\ written' = IF outcome = "saved" THEN written \cup {name} ELSE written
           /\ pix' = PixAfter(pix, outcome)
           /\ saved_by' = IF outcome = "saved" THEN SavedBy(saved_by, name, op, file_idx)
                          ELSE saved_by
           /\ figure_count' = Counted(figure_count, outcome)
           /\ pc' = AfterCaption(outcome, cap_index, Len(figure_captions), "figures",
                                 IF table_captions # <<>> THEN "tables" ELSE "endpage")
           /\ cap_index' = IF pc' = "figures" THEN cap_index + 1 ELSE 0
  /\ UNCHANGED <<op, doc, num_pages, page_num, page, page_dict, page_height, page_width,
                 blocks, block_idx, figure_captions, table_captions, tested,
                 image_list, img_index, table_count, img_count>>
  /\ UNCHANGED <<twiceVars, loadVars>>

\* one iteration of the loop over table_captions
ProcessTableCaption ==
  /\ pc = "tables"
  /\ cap_index < Len(table_captions)
  /\ LET caption == table_captions[cap_index + 1]
         box     == IF Unpacks(caption.bbox)
                      THEN TableCaptureBox(caption.bbox, page_width, page_height)
                      ELSE NoResolution.final_bbox
         name    == FileName(op, "table", caption.num, page_num)
         results == IF Unpacks(caption.bbox) THEN Outcomes ELSE {"unpack_error"}
     IN  \E outcome \in results :
           /\ (pdf.given /\ outcome \in Outcomes) =>
                outcome = GivenPage.outcomes[cap_index + 1]
           /\ region' = [src |-> "table_caption", idx |-> caption.block_idx, info |-> <<>>,
                         anchor |-> caption.bbox,
                         res |-> [NoResolution EXCEPT !.kind = "table",
                                    !.num = caption.num, !.final_bbox = box],
                         outcome |-> outcome, file |-> name]
           /\ files' = IF outcome = "saved" THEN Save(files, name, page_num) ELSE files
           /\ written' = IF outcome = "saved" THEN written \cup {name} ELSE written
           /\ pix' = PixAfter(pix, outcome)
           /\ saved_by' = IF outcome = "saved" THEN SavedBy(saved_by, name, op, file_idx)
                          ELSE saved_by
           /\ table_count' = Counted(table_count, outcome)
           /\ pc' = AfterCaption(outcome, cap_index, Len(table_captions), "tables",
                                 "endpage")
           /\ cap_index' = IF pc' = "tables" THEN cap_index + 1 ELSE 0
  /\ UNCHANGED <<op, doc, num_pages, page_num, page, page_dict, page_height, page_width,
                 blocks, block_idx, figure_captions, table_captions, tested,
                 image_list, img_index, figure_count, img_count>>
  /\ UNCHANGED <<twiceVars, loadVars>>

\* page = None; gc.collect(); and the next page index.  page_dict, blocks,
\* the caption lists, image_list and the loop indexes stay bound to the
\* values of this page, and no code reads them again before the next page
\* assigns them: the model keeps page_dict = "bound" and drops the values.
EndPage ==
  /\ pc = "endpage"
  /\ page' = "none"
  /\ page_num' = page_num + 1
  /\ pc' = IF page_num + 1 < num_pages THEN "page" ELSE "finish"
  /\ page_height' = 0
  /\ page_width' = 0
  /\ blocks' = <<>>
  /\ block_idx' = 0
  /\ figure_captions' = <<>>
  /\ table_captions' = <<>>
  /\ tested' = {}
  /\ image_list' = <<>>
  /\ img_index' = 0
  /\ cap_index' = 0
  /\ region' = NoRegion
  /\ UNCHANGED <<op, doc, num_pages, page_dict, files,
                 figure_count, table_count, img_count, written, pix, saved_by>>
  /\ UNCHANGED <<twiceVars, loadVars>>

\* the finally clause: if doc: doc.close()
CloseDoc ==
  /\ pc \in {"finish", "finally"}
  /\ doc' = IF doc = "open" THEN "closed" ELSE doc
  /\ pc' = "done"
  /\ UNCHANGED <<op, num_pages, page_num, page, page_dict, page_height, page_width, blocks,
                 block_idx, figure_captions, table_captions, tested, image_list,
                 img_index, cap_index, region, files, figure_count, table_count,
                 img_count, written, pix, saved_by>>
  /\ UNCHANGED <<twiceVars, loadVars>>

(***************************************************************************)
(* loader.py, _load_pdf: open, read the text of every page, close.  There  *)
(* is no try block: an exception leaves the function at once.              *)
(***************************************************************************)
\* pdf_document = fitz.open(file_path)
OpenPdf ==
  /\ pc = "start"
  /\ op = LoadPdf
  /\ \E opened \in BOOLEAN, n \in 0..MaxPages :
       IF opened
         THEN /\ doc' = "open"
              /\ num_pages' = n
              /\ pc' = "read"
         ELSE /\ doc' = "none"
              /\ num_pages' = 0
              /\ pc' = "raised"
  /\ UNCHANGED <<op, page_num, page, page_dict, page_height, page_width, blocks, block_idx,
                 figure_captions, table_captions, tested, image_list, img_index,
                 cap_index, region, files, figure_count, table_count, img_count, written, pix, saved_by>>
  /\ UNCHANGED <<twiceVars, loadVars>>

\* page = pdf_document[page_num]; text += page.get_text()
ReadPage ==
  /\ pc = "read"
  /\ page_num < num_pages
  /\ \E ok \in BOOLEAN :
       IF ok
         THEN /\ page' = "loaded"
              /\ page_num' = page_num + 1
              /\ pc' = "read"
         ELSE /\ pc' = "raised"
              /\ UNCHANGED <<page, page_num>>
  /\ UNCHANGED <<op, doc, num_pages, page_dict, page_height, page_width, blocks, block_idx,
                 figure_captions, table_captions, tested, image_list, img_index,
                 cap_index, region, files, figure_count, table_count, img_count, written, pix, saved_by>>
  /\ UNCHANGED <<twiceVars, loadVars>>

\* the metadata, pdf_document.close() and the return
ClosePdf ==
  /\ pc = "read"
  /\ page_num = num_pages
  /\ doc' = "closed"
  /\ pc' = "done"
  /\ UNCHANGED <<op, num_pages, page_num, page, page_dict, page_height, page_width, blocks,
                 block_idx, figure_captions, table_captions, tested, image_list,
                 img_index, cap_index, region, files, figure_count, table_count,
                 img_count, written, pix, saved_by>>
  /\ UNCHANGED <<twiceVars, loadVars>>

Next ==
  \/ MakeDirs
  \/ OpenDoc
  \/ LoadPage
  \/ ScanBlock
  \/ GetImages
  \/ ProcessImage
  \/ ProcessFigureCaption
  \/ ProcessTableCaption
  \/ EndPage
  \/ CloseDoc
  \/ OpenPdf
  \/ ReadPage
  \/ ClosePdf

Spec == Init /\ [][Next]_vars

(***************************************************************************)
(* The same operation run twice on one PDF, into one output directory.     *)
(* The PDF is given: what it holds, and what every call on it does, is the *)
(* same in both runs.                                                      *)
(***************************************************************************)
\* the outcomes of the render calls of the loops of a page, by position
OutcomeLists ==
  { [k \in 1..(MaxBlocks + MaxImages) |-> "saved"],
    [k \in 1..(MaxBlocks + MaxImages) |-> IF k = 1 THEN "render_error" ELSE "saved"],
    [k \in 1..(MaxBlocks + MaxImages) |-> IF k = 1 THEN "saved" ELSE "save_error"] }

GivenPage1(bs, outcomes) ==
  [ok |-> TRUE, height |-> 800, width |-> 600, blocks |-> bs, n_images |-> 1,
   image_info |-> <<[xref |-> 1, bbox |-> ImageA]>>, outcomes |-> outcomes]

UnreadablePage == [GivenPage1(<<>>, <<>>) EXCEPT !.ok = FALSE]

FirstGivenPages ==
  { GivenPage1(bs, o) :
      bs \in { <<TextBlock(TextFigure2, CaptionA)>>,
               <<TextBlock(TextTable3A, CaptionTop), TextBlock(TextFigure2, CaptionA)>>,
               <<TextBlock(TextFigure2, CaptionA), TextBlock(TextFigure2, CaptionTop)>> },
      o \in OutcomeLists }
  \cup {UnreadablePage}

LaterGivenPages ==
  { GivenPage1(<<TextBlock(TextFigure2, CaptionA)>>, [k \in 1..(MaxBlocks + MaxImages) |-> "saved"]),
    UnreadablePage }

\* the pages of a given PDF: none, or a first page and up to MaxPages - 1
\* later ones
GivenPageLists ==
  {<<>>} \cup
  { <<p>> \o rest : p \in FirstGivenPages, rest \in SeqsUpTo(LaterGivenPages, MaxPages - 1) }

Docs ==
  { [given |-> TRUE, dir_ok |-> TRUE, opened |-> TRUE, pages |-> ps] : ps \in GivenPageLists }
  \cup { [given |-> TRUE, dir_ok |-> FALSE, opened |-> TRUE, pages |-> <<>>],
         [given |-> TRUE, dir_ok |-> TRUE, opened |-> FALSE, pages |-> <<>>] }

InitTwice ==
  /\ op \in Operations
  /\ pdf \in Docs
  /\ run = 1
  /\ first = NoFirst
  /\ pc = "start"
  /\ doc = "none"
  /\ num_pages = 0
  /\ page_num = 0
  /\ page = "none"
  /\ page_dict = "none"
  /\ page_height = 0
  /\ page_width = 0
  /\ blocks = <<>>
  /\ block_idx = 0
  /\ figure_captions = <<>>
  /\ table_captions = <<>>
  /\ tested = {}
  /\ image_list = <<>>
  /\ img_index = 0
  /\ cap_index = 0
  /\ region = NoRegion
  /\ files = {}
  /\ figure_count = 0
  /\ table_count = 0
  /\ img_count = 0
  /\ written = {}
  /\ pix = "none"
  /\ saved_by = {}
  /\ LoaderIdle

\* the operation is called again, on the same PDF and output directory: the
\* directory keeps its files, every local of the run starts anew
Rerun ==
  /\ pc \in {"done", "raised"}
  /\ run = 1
  /\ run' = 2
  /\ first' = [files |-> files, written |-> written]
  /\ written' = {}
  /\ pix' = "none"
  /\ saved_by' = saved_by
  /\ pc' = "start"
  /\ doc' = "none"
  /\ num_pages' = 0
  /\ page_num' = 0
  /\ page' = "none"
  /\ page_dict' = "none"
  /\ page_height' = 0
  /\ page_width' = 0
  /\ blocks' = <<>>
  /\ block_idx' = 0
  /\ figure_captions' = <<>>
  /\ table_captions' = <<>>
  /\ tested' = {}
  /\ image_list' = <<>>
  /\ img_index' = 0
  /\ cap_index' = 0
  /\ region' = NoRegion
  /\ figure_count' = 0
  /\ table_count' = 0
  /\ img_count' = 0
  /\ UNCHANGED <<op, files, pdf>>
  /\ UNCHANGED loadVars

NextTwice ==
  \/ MakeDirs
  \/ OpenDoc
  \/ LoadPage
  \/ ScanBlock
  \/ GetImages
  \/ ProcessImage
  \/ ProcessFigureCaption
  \/ ProcessTableCaption
  \/ EndPage
  \/ CloseDoc
  \/ Rerun

SpecTwice == InitTwice /\ [][NextTwice]_vars

(***************************************************************************)
(* load_from_directory of parser.py, pdfParser.py and loader.py.  The      *)
(* calls it makes are taken by what they can do to their caller:           *)
(* extract_figures_and_tables and extract_images raise only from           *)
(* os.makedirs, which is before their try block, and return otherwise      *)
(* (a PDF that cannot be opened included); _parse_pdf and _load_pdf raise  *)
(* or return.                                                              *)
(***************************************************************************)
ParserPy == "parser.Parser"

PdfParserPy == "pdfParser.Parser"

LoaderPy == "loader.Parser"

Variants == {ParserPy, PdfParserPy, LoaderPy}

\* a file of the directory tree: the path of its directory, its name, and
\* whether fitz can open it
File(parent, name, corrupt) == [parent |-> parent, name |-> name, corrupt |-> corrupt]

\* str(pdf_path)
Str(pdf_path) == pdf_path.parent \o <<"/">> \o pdf_path.name

\* sub in s
Contains(s, sub) ==
  \E i \in 1..(Len(s) - Len(sub) + 1) : SubSeq(s, i, i + Len(sub) - 1) = sub

EndsWith(s, suffix) ==
  Len(s) >= Len(suffix) /\ SubSeq(s, Len(s) - Len(suffix) + 1, Len(s)) = suffix

OutputMark == <<"_","o","u","t","p","u","t",".","p","d","f">>

\* "_output.pdf" in str(pdf_path)
IsOutputPdf(pdf_path) == Contains(Str(pdf_path), OutputMark)

\* the files of the tree: d/a.pdf, d/b.pdf (which cannot be opened),
\* d/a_output.pdf, d/x_output.pdfs/c.pdf and d/n.txt
DirectoryFiles ==
  { File(<<"d">>, <<"a",".","p","d","f">>, FALSE),
    File(<<"d">>, <<"b",".","p","d","f">>, TRUE),
    File(<<"d">>, <<"a","_","o","u","t","p","u","t",".","p","d","f">>, FALSE),
    File(<<"d","/","x","_","o","u","t","p","u","t",".","p","d","f","s">>,
         <<"c",".","p","d","f">>, FALSE),
    File(<<"d">>, <<"n",".","t","x","t">>, FALSE) }

\* dir_path.glob("**/*.pdf") over a listing of the tree
Glob(listing) ==
  LET IsPdf(f) == EndsWith(f.name, <<".","p","d","f">>)
  IN  SelectSeq(listing, IsPdf)

\* the path given: a directory, a file that is not one, or nothing
DirPaths == {"directory", "file", "missing"}

\* a list that takes the newest document first
AppendedFirst(docs, i) == <<i>> \o docs

\* documents.append(parsed_content), the content being that of file i
Appended(docs, i) == Append(docs, i)

RunIdle ==
  /\ op = "none"
  /\ pc = "idle"
  /\ doc = "none"
  /\ num_pages = 0
  /\ page_num = 0
  /\ page = "none"
  /\ page_dict = "none"
  /\ page_height = 0
  /\ page_width = 0
  /\ blocks = <<>>
  /\ block_idx = 0
  /\ figure_captions = <<>>
  /\ table_captions = <<>>
  /\ tested = {}
  /\ image_list = <<>>
  /\ img_index = 0
  /\ cap_index = 0
  /\ region = NoRegion
  /\ files = {}
  /\ figure_count = 0
  /\ table_count = 0
  /\ img_count = 0
  /\ written = {}
  /\ pix = "none"
  /\ saved_by = {}

InitLoad ==
  /\ variant \in Variants
  /\ dir_path \in DirPaths
  /\ pdf_files = <<>>
  /\ file_idx = 0
  /\ lpc = "start"
  /\ documents = <<>>
  /\ stages = {}
  /\ RunIdle
  /\ OnceOnly

\* the directory check and pdf_files = list(dir_path.glob("**/*.pdf"))
ListPdfFiles ==
  /\ lpc = "start"
  /\ \E listing \in SeqsUpTo(DirectoryFiles, MaxFiles) :
       IF dir_path = "directory"
         THEN /\ pdf_files' = Glob(listing)
              /\ lpc' = IF Glob(listing) = <<>> THEN "returned" ELSE "file"
         ELSE /\ pdf_files' = <<>>
              /\ lpc' = "raised"
  /\ UNCHANGED <<variant, dir_path, file_idx, documents, stages>>
  /\ UNCHANGED <<runVars, twiceVars>>

\* the call of callee for file i
Called(i, callee) == stages \cup {<<i, callee>>}

\* the top of the loop body: the filter of parser.py and pdfParser.py;
\* loader.py has none
EnterFile ==
  /\ lpc = "file"
  /\ file_idx < Len(pdf_files)
  /\ IF variant = LoaderPy
       THEN lpc' = "load_pdf" /\ file_idx' = file_idx
       ELSE IF IsOutputPdf(pdf_files[file_idx + 1])
         THEN lpc' = "file" /\ file_idx' = file_idx + 1
         ELSE lpc' = "figures_and_tables" /\ file_idx' = file_idx
  /\ UNCHANGED <<variant, dir_path, pdf_files, documents, stages>>
  /\ UNCHANGED <<runVars, twiceVars>>

\* self.extract_figures_and_tables(pdf_path)
CallFiguresAndTables ==
  /\ lpc = "figures_and_tables"
  /\ \E dir_ok \in BOOLEAN :
       IF dir_ok
         THEN /\ stages' = Called(file_idx + 1, "extract_figures_and_tables")
              /\ lpc' = "images"
              /\ file_idx' = file_idx
         ELSE /\ stages' = Called(file_idx + 1, "extract_figures_and_tables")
                             \cup {<<file_idx + 1, "logging.error">>}
              /\ lpc' = "file"
              /\ file_idx' = file_idx + 1
  /\ UNCHANGED <<variant, dir_path, pdf_files, documents>>
  /\ UNCHANGED <<runVars, twiceVars>>

\* extract_images(file_path=pdf_path)
CallImages ==
  /\ lpc = "images"
  /\ \E dir_ok \in BOOLEAN :
       IF dir_ok
         THEN /\ stages' = Called(file_idx + 1, "extract_images")
              /\ lpc' = "parse"
              /\ file_idx' = file_idx
         ELSE /\ stages' = Called(file_idx + 1, "extract_images")
                             \cup {<<file_idx + 1, "logging.error">>}
              /\ lpc' = "file"
              /\ file_idx' = file_idx + 1
  /\ UNCHANGED <<variant, dir_path, pdf_files, documents>>
  /\ UNCHANGED <<runVars, twiceVars>>

\* the inner try: parsed_content = self._parse_pdf(pdf_path);
\* documents.append(parsed_content)
CallParse ==
  /\ lpc = "parse"
  /\ \E parsed \in BOOLEAN :
       IF parsed
         THEN /\ stages' = Called(file_idx + 1, "_parse_pdf")
              /\ documents' = Appended(documents, file_idx + 1)
         ELSE /\ stages' = Called(file_idx + 1, "_parse_pdf")
                             \cup {<<file_idx + 1, "logging.error">>}
              /\ documents' = documents
  /\ lpc' = "file"
  /\ file_idx' = file_idx + 1
  /\ UNCHANGED <<variant, dir_path, pdf_files>>
  /\ UNCHANGED <<runVars, twiceVars>>

\* loader.py: doc = self._load_pdf(pdf_path); documents.append(doc).  A
\* file that fitz cannot open raises; a file it opens may raise while a page
\* is read.
CallLoadPdf ==
  /\ lpc = "load_pdf"
  /\ \E loaded \in IF pdf_files[file_idx + 1].corrupt THEN {FALSE} ELSE BOOLEAN :
       IF loaded
         THEN /\ stages' = Called(file_idx + 1, "_load_pdf")
              /\ documents' = Appended(documents, file_idx + 1)
         ELSE /\ stages' = Called(file_idx + 1, "_load_pdf")
                             \cup {<<file_idx + 1, "logging.error">>}
              /\ documents' = documents
  /\ lpc' = "file"
  /\ file_idx' = file_idx + 1
  /\ UNCHANGED <<variant, dir_path, pdf_files>>
  /\ UNCHANGED <<runVars, twiceVars>>

\* return documents
Return ==
  /\ lpc = "file"
  /\ file_idx = Len(pdf_files)
  /\ lpc' = "returned"
  /\ UNCHANGED <<variant, dir_path, pdf_files, file_idx, documents, stages>>
  /\ UNCHANGED <<runVars, twiceVars>>

NextLoad ==
  \/ ListPdfFiles
  \/ EnterFile
  \/ CallFiguresAndTables
  \/ CallImages
  \/ CallParse
  \/ CallLoadPdf
  \/ Return

SpecLoad == InitLoad /\ [][NextLoad]_vars

(***************************************************************************)
(* load_from_directory of parser.py and pdfParser.py with its two          *)
(* extraction passes run: a batch of given PDFs, all written to the same   *)
(* default output directory.                                               *)
(***************************************************************************)
\* a pass order where the image pass comes first
PassOrderImagesFirst(v) ==
  IF v = ParserPy THEN <<Images, FiguresAndTables>>
  ELSE <<Images, FiguresAndTablesPaged>>

\* self.extract_figures_and_tables(pdf_path), then extract_images(file_path=pdf_path)
PassOrder(v) ==
  IF v = ParserPy THEN <<FiguresAndTables, Images>>
  ELSE <<FiguresAndTablesPaged, Images>>

\* the name of the method of operation o
Callee(o) == IF o = Images THEN "extract_images" ELSE "extract_figures_and_tables"

AllSaved == [k \in 1..(MaxBlocks + MaxImages) |-> "saved"]

RenderErrorFirst ==
  [k \in 1..(MaxBlocks + MaxImages) |-> IF k = 1 THEN "render_error" ELSE "saved"]

\* the PDFs of a batch: one page at most
BatchDocs ==
  { d \in Docs :
      /\ Len(d.pages) <= 1
      /\ \A k \in 1..Len(d.pages) :
           /\ d.pages[k].ok
           /\ d.pages[k].outcomes \in {AllSaved, RenderErrorFirst}
           /\ d.pages[k].blocks \in
                { <<TextBlock(TextFigure2, CaptionA)>>,
                  <<TextBlock(TextTable3A, CaptionTop), TextBlock(TextFigure2, CaptionA)>> } }

BatchFile(d) ==
  [parent |-> <<"d">>, name |-> <<"a", ".", "p", "d", "f">>, corrupt |-> ~d.opened,
   content |-> d]

InitBatch ==
  /\ variant \in {ParserPy, PdfParserPy}
  /\ dir_path = "directory"
  /\ pdf_files \in { s \in SeqsUpTo({BatchFile(d) : d \in BatchDocs}, MaxFiles) : s # <<>> }
  /\ file_idx = 0
  /\ lpc = "file"
  /\ documents = <<>>
  /\ stages = {}
  /\ RunIdle
  /\ OnceOnly

\* the call of operation o on the PDF d: every local of the call starts
\* anew, the output directory keeps its files
BeginRun(o, d) ==
  /\ op' = o
  /\ pdf' = d
  /\ pc' = "start"
  /\ doc' = "none"
  /\ num_pages' = 0
  /\ page_num' = 0
  /\ page' = "none"
  /\ page_dict' = "none"
  /\ page_height' = 0
  /\ page_width' = 0
  /\ blocks' = <<>>
  /\ block_idx' = 0
  /\ figure_captions' = <<>>
  /\ table_captions' = <<>>
  /\ tested' = {}
  /\ image_list' = <<>>
  /\ img_index' = 0
  /\ cap_index' = 0
  /\ region' = NoRegion
  /\ figure_count' = 0
  /\ table_count' = 0
  /\ img_count' = 0
  /\ written' = {}
  /\ pix' = "none"
  /\ UNCHANGED <<files, saved_by, run, first>>

\* the first extraction call of the loop body, for a file that passes the filter
StartFirstPass ==
  /\ lpc = "file"
  /\ file_idx < Len(pdf_files)
  /\ BeginRun(PassOrder(variant)[1], pdf_files[file_idx + 1].content)
  /\ lpc' = "figures_and_tables"
  /\ UNCHANGED <<variant, dir_path, pdf_files, file_idx, documents, stages>>

\* the first call has returned, or raised into the except of the loop body;
\* os.makedirs of the second call meets the file system as it then is
StartSecondPass ==
  /\ lpc = "figures_and_tables"
  /\ pc \in {"done", "raised"}
  /\ IF pc = "done"
       THEN /\ \E dir_ok \in BOOLEAN :
                 BeginRun(PassOrder(variant)[2], [pdf EXCEPT !.dir_ok = dir_ok])
            /\ stages' = Called(file_idx + 1, Callee(op))
            /\ lpc' = "images"
            /\ file_idx' = file_idx
       ELSE /\ stages' = Called(file_idx + 1, Callee(op)) \cup {<<file_idx + 1, "logging.error">>}
            /\ lpc' = "file"
            /\ file_idx' = file_idx + 1
            /\ UNCHANGED <<runVars, twiceVars>>
  /\ UNCHANGED <<variant, dir_path, pdf_files, documents>>

\* the second call has returned, or raised into the except of the loop body
EndSecondPass ==
  /\ lpc = "images"
  /\ pc \in {"done", "raised"}
  /\ IF pc = "done"
       THEN /\ stages' = Called(file_idx + 1, Callee(op))
            /\ lpc' = "parse"
            /\ file_idx' = file_idx
       ELSE /\ stages' = Called(file_idx + 1, Callee(op)) \cup {<<file_idx + 1, "logging.error">>}
            /\ lpc' = "file"
            /\ file_idx' = file_idx + 1
  /\ UNCHANGED <<variant, dir_path, pdf_files, documents>>
  /\ UNCHANGED <<runVars, twiceVars>>

NextBatch ==
  \/ MakeDirs
  \/ OpenDoc
  \/ LoadPage
  \/ ScanBlock
  \/ GetImages
  \/ ProcessImage
  \/ ProcessFigureCaption
  \/ ProcessTableCaption
  \/ EndPage
  \/ CloseDoc
  \/ StartFirstPass
  \/ StartSecondPass
  \/ EndSecondPass
  \/ CallParse
  \/ Return

SpecBatch == InitBatch /\ [][NextBatch]_vars

(***************************************************************************)
(* The detectors alone: the block loop of one page, over DetectTexts.      *)
(***************************************************************************)
InitDetect ==
  /\ op \in {FiguresAndTables, Images, Tables}
  /\ pc = "scan"
  /\ doc = "open"
  /\ num_pages = 1
  /\ page_num = 0
  /\ page = "loaded"
  /\ page_dict = "bound"
  /\ page_height \in PageHeights
  /\ page_width \in PageWidths
  /\ blocks \in SeqsUpTo(DetectBlocks, MaxBlocks) \ {<<>>}
  /\ block_idx = 0
  /\ figure_captions = <<>>
  /\ table_captions = <<>>
  /\ tested = {}
  /\ image_list = <<>>
  /\ img_index = 0
  /\ cap_index = 0
  /\ region = NoRegion
  /\ files = {}
  /\ figure_count = 0
  /\ table_count = 0
  /\ img_count = 0
  /\ written = {}
  /\ pix = "none"
  /\ saved_by = {}
  /\ OnceOnly
  /\ LoaderIdle

NextDetect == ScanBlock

SpecDetect == InitDetect /\ [][NextDetect]_vars

(***************************************************************************)
(* Properties.                                                             *)
(***************************************************************************)
\* the blocks of the page that the block loop has passed
Scanned == { i \in 0..(Len(blocks) - 1) : i < block_idx /\ blocks[i + 1].type = 0 }

FigureIdx == { figure_captions[k].block_idx : k \in 1..Len(figure_captions) }

TableIdx == { table_captions[k].block_idx : k \in 1..Len(table_captions) }

FigureNumOf(i) ==
  (CHOOSE k \in 1..Len(figure_captions) : figure_captions[k].block_idx = i)

TableNumOf(i) ==
  (CHOOSE k \in 1..Len(table_captions) : table_captions[k].block_idx = i)

\* C1: in the detectors of extract_figures_and_tables and extract_images, a
\* block that passes the detector's Figure test is not tested against the
\* Table patterns and is not in table_captions, and no block is in both lists.
C1_CaptionExclusivity ==
  op \in CaptionFirstOps \cup {Images} =>
    \A i \in Scanned :
      /\ FigureTest(op, blocks[i + 1].text) => (i \notin tested /\ i \notin TableIdx)
      /\ ~(i \in FigureIdx /\ i \in TableIdx)

\* C1 witness: a block passed the Figure test of a caption-first detector and
\* is a Figure caption, and another block was tested and is a Table caption.
C1_Witness ==
  /\ op \in CaptionFirstOps
  /\ \E i \in Scanned : FigureTest(op, blocks[i + 1].text) /\ i \in FigureIdx
  /\ \E i \in Scanned : i \in tested /\ i \in TableIdx

\* C2: in the detectors of extract_figures_and_tables and extract_images, a
\* text block whose text matches one of the five Figure patterns is a Figure
\* caption and one that matches one of the five Table patterns is a Table
\* caption; blanks before the keyword make no difference in either detector.
C2_CaptionClassification ==
  op \in CaptionFirstOps \cup {Images} =>
    \A i \in Scanned :
      /\ MatchesCaptionPatterns(Strip(blocks[i + 1].text), FigureKeyword)
           => i \in FigureIdx
      /\ MatchesCaptionPatterns(Strip(blocks[i + 1].text), TableKeyword)
           => i \in TableIdx

IsOrdinalWith(num, letters) ==
  \E n \in 1..Len(num) :
    /\ \A k \in 1..n : num[k] \in Digits
    /\ \/ Len(num) = n
       \/ (Len(num) = n + 1 /\ num[n + 1] \in letters)

AllOrdinals ==
  { figure_captions[k].num : k \in 1..Len(figure_captions) }
  \cup { table_captions[k].num : k \in 1..Len(table_captions) }

\* C3 as stated: every stored ordinal is digits with at most one ASCII letter
\* after them, or "unknown".
C3_OrdinalAsciiFormat ==
  \A num \in AllOrdinals : num = Unknown \/ IsOrdinalWith(num, AsciiLetters)

\* the letters that [A-Za-z] accepts under re.IGNORECASE
FoldedLetters == AsciiLetters \cup {"U+0130", "U+0131", "U+017F", "U+212A"}

\* C3 amended: every stored ordinal is digits with at most one letter after
\* them, the letter being an ASCII letter or one of the four letters that
\* case-folding maps to an ASCII letter, or "unknown".
C3_OrdinalFormat ==
  \A num \in AllOrdinals : num = Unknown \/ IsOrdinalWith(num, FoldedLetters)

\* C3 witness: an ordinal with a letter suffix and one without are stored.
C3_Witness ==
  /\ \E num \in AllOrdinals : Len(num) > 1 /\ num[Len(num)] \in AsciiLetters
  /\ \E num \in AllOrdinals : num[Len(num)] \in Digits

\* the text is kw, a blank, digits, an ASCII letter and ":" or ".", the
\* digits and the letter ending at position e
IsSuffixedCaption(t, kw, e) ==
  LET k == Len(kw)
  IN  /\ k + 3 <= e /\ e + 1 <= Len(t)
      /\ SubSeq(t, 1, k) = kw
      /\ t[k + 1] = " "
      /\ \A j \in (k + 2)..(e - 1) : t[j] \in AsciiDigits
      /\ t[e] \in AsciiLetters
      /\ t[e + 1] \in {":", "."}

\* C4: a block "Table <digits><letter>" followed by ":" or "." and any text
\* is a Table caption whose ordinal is the digits with the letter, in every
\* detector; likewise "Figure <digits><letter>" in the detectors of
\* extract_figures_and_tables and extract_images.
C4_LetterSuffix ==
  \A i \in Scanned :
    LET t == blocks[i + 1].text
    IN  \A e \in 1..Len(t) :
          /\ IsSuffixedCaption(t, kTable, e) =>
               /\ i \in TableIdx
               /\ table_captions[TableNumOf(i)].num = SubSeq(t, Len(kTable) + 2, e)
          /\ (op # Tables /\ IsSuffixedCaption(t, kFigure, e)) =>
               /\ i \in FigureIdx
               /\ figure_captions[FigureNumOf(i)].num = SubSeq(t, Len(kFigure) + 2, e)

\* C4 witness: "Table 3A: summary" was scanned and is a Table caption "3A".
C4_Witness ==
  \E i \in Scanned :
    /\ blocks[i + 1].text = TextTable3A
    /\ i \in TableIdx
    /\ table_captions[TableNumOf(i)].num = <<"3", "A">>

\* an image was processed and its box was found
\* an image whose box was found and unpacked, with the boxes of the captions
ImageRegion ==
  region.src = "image" /\ region.anchor # NoBox /\ region.outcome # "unpack_error"

\* page.get_pixmap was called for the region
Rasterized == region.outcome \in Outcomes

\* the caption box c lies entirely above or entirely below the extent
\* y0..y1, at a gap smaller than a quarter of the page height
WithinQuarter(c, y0, y1) ==
  \/ (c[4] <= y0 /\ 4 * (y0 - c[4]) < page_height)
  \/ (c[2] >= y1 /\ 4 * (c[2] - y1) < page_height)

Overlaps(c, y0, y1) == c[2] < y1 /\ c[4] > y0

InSeq(x, sq) == \E k \in 1..Len(sq) : sq[k] = x

CaptionsOf(sq) == { sq[k] : k \in 1..Len(sq) }

\* C5: for an image of extract_images, a Figure caption is in the nearby list
\* exactly if it lies entirely above or below the image at a gap smaller than
\* 0.25 * page_height (and so for the Table captions, when they are
\* searched); a gap of exactly 0.25 * page_height is not nearby, a gap of 0
\* is, and a caption that overlaps the image vertically is not nearby.
C5_Proximity ==
  ImageRegion =>
    LET y0 == region.anchor[2]
        y1 == region.anchor[4]
        Right(c, nearby) ==
          /\ InSeq(c, nearby) <=> WithinQuarter(c.bbox, y0, y1)
          /\ (4 * (y0 - c.bbox[4]) = page_height \/ 4 * (c.bbox[2] - y1) = page_height)
               => ~InSeq(c, nearby)
          /\ (c.bbox[4] = y0 \/ c.bbox[2] = y1) => InSeq(c, nearby)
          /\ Overlaps(c.bbox, y0, y1) => ~InSeq(c, nearby)
    IN  /\ \A c \in CaptionsOf(figure_captions) : Right(c, region.res.nearby_figure)
        /\ region.res.table_searched =>
             \A c \in CaptionsOf(table_captions) : Right(c, region.res.nearby_table)

\* C5 witness: of two Figure captions one is at a gap of exactly a quarter of
\* the page height from the image and not nearby, the other touches the image
\* and is nearby.
C5_Witness ==
  /\ ImageRegion
  /\ \E c \in CaptionsOf(figure_captions) :
       /\ 4 * (c.bbox[2] - region.anchor[4]) = page_height
       /\ ~InSeq(c, region.res.nearby_figure)
  /\ \E c \in CaptionsOf(figure_captions) :
       /\ c.bbox[4] = region.anchor[2]
       /\ InSeq(c, region.res.nearby_figure)

\* C6: for an image of extract_images, the nearby Table captions are computed
\* only if no Figure caption is nearby; the image gives at most one region,
\* of one kind; with a Figure and a Table caption both within the threshold,
\* the region is written as figure_{ordinal}.png and not as a table.
C6_FigurePriority ==
  ImageRegion =>
    LET y0 == region.anchor[2]
        y1 == region.anchor[4]
        near_fig == { c \in CaptionsOf(figure_captions) : WithinQuarter(c.bbox, y0, y1) }
        near_tab == { c \in CaptionsOf(table_captions) : WithinQuarter(c.bbox, y0, y1) }
    IN  /\ region.res.table_searched => near_fig = {}
        /\ region.res.nearby_table # <<>> => region.res.nearby_figure = <<>>
        /\ (near_fig # {} /\ near_tab # {}) =>
             /\ region.res.kind = "figure"
             /\ region.file.kind = "figure"
             /\ \E c \in near_fig : region.file.num = c.num
             /\ region.outcome = "saved" =>
                  \E f \in files : f.name = region.file /\ f.page_num = page_num

\* C6 witness: an image with a Figure and a Table caption nearby was saved.
C6_Witness ==
  /\ ImageRegion
  /\ region.outcome = "saved"
  /\ \E c \in CaptionsOf(figure_captions) :
       WithinQuarter(c.bbox, region.anchor[2], region.anchor[4])
  /\ \E c \in CaptionsOf(table_captions) :
       WithinQuarter(c.bbox, region.anchor[2], region.anchor[4])

SetMin(S) == CHOOSE x \in S : \A y \in S : x <= y

SetMax(S) == CHOOSE x \in S : \A y \in S : x >= y

\* C7: for an image of extract_images with nearby captions of the chosen
\* kind, the extent before padding is the least top and the greatest bottom
\* of the image and of all these captions.
C7_BoxUnion ==
  (ImageRegion /\ region.res.kind # "none") =>
    LET y0 == region.anchor[2]
        y1 == region.anchor[4]
        caps == IF region.res.kind = "figure" THEN figure_captions ELSE table_captions
        near == { c \in CaptionsOf(caps) : WithinQuarter(c.bbox, y0, y1) }
    IN  /\ region.res.top = SetMin({y0} \cup { c.bbox[2] : c \in near })
        /\ region.res.bottom = SetMax({y1} \cup { c.bbox[4] : c \in near })
        /\ \A c \in near : region.res.top <= c.bbox[2] /\ c.bbox[4] <= region.res.bottom

\* C7 witness: two Figure captions are nearby, the first of the list below
\* the image and the second above it.
C7_Witness ==
  /\ ImageRegion
  /\ Len(region.res.nearby_figure) = 2
  /\ region.res.nearby_figure[1].bbox[2] >= region.anchor[4]
  /\ region.res.nearby_figure[2].bbox[4] <= region.anchor[2]
  /\ region.res.top < region.anchor[2]
  /\ region.res.bottom > region.anchor[4]

\* C8: every box that extract_images rasterizes, whatever the image and
\* caption boxes, has 0 <= top <= bottom <= page_height.
C8_ImageBoxClamped ==
  (ImageRegion /\ Rasterized) =>
    /\ 0 <= region.res.final_bbox[2]
    /\ region.res.final_bbox[2] <= region.res.final_bbox[4]
    /\ region.res.final_bbox[4] <= page_height

\* C9: every capture box of extract_figures_and_tables / extract_tables lies
\* within [0, page_width] x [0, page_height].
C9_CaptionBoxClamped ==
  (region.src \in {"figure_caption", "table_caption"} /\ Rasterized) =>
    /\ region.res.final_bbox[1] = 0
    /\ region.res.final_bbox[3] = page_width
    /\ 0 <= region.res.final_bbox[2]
    /\ region.res.final_bbox[4] <= page_height

EraseX(b) == <<0, b[2], 0, b[4]>>

EraseXs(caps) == [k \in 1..Len(caps) |-> [caps[k] EXCEPT !.bbox = EraseX(caps[k].bbox)]]

\* C10: every rasterized region spans exactly 0..page_width, and its kind,
\* its file name and its box are those of the same page with every box moved
\* to x = 0 and width 0.
C10_FullPageWidth ==
  Rasterized =>
    /\ region.res.final_bbox[1] = 0
    /\ region.res.final_bbox[3] = page_width
    /\ region.src = "image" =>
         LET r == ResolveImage(EraseX(region.anchor), EraseXs(figure_captions),
                               EraseXs(table_captions), page_width, page_height)
         IN  /\ r.kind = region.res.kind
             /\ r.final_bbox = region.res.final_bbox
             /\ FileName(op, r.kind, r.num, page_num) = region.file
    /\ region.src = "figure_caption" =>
         FigureCaptureBox(EraseX(region.anchor), page_width, page_height)
           = region.res.final_bbox
    /\ region.src = "table_caption" =>
         TableCaptureBox(EraseX(region.anchor), page_width, page_height)
           = region.res.final_bbox

\* C10 witness: an image and a caption that share no x-coordinate were saved
\* as one region.
C10_Witness ==
  /\ ImageRegion
  /\ region.outcome = "saved"
  /\ \E k \in 1..Len(region.res.nearby_figure) :
       region.res.nearby_figure[k].bbox[3] < region.anchor[1]

\* the file of the region, as the output directory holds it after the save
FileOfRegion == [name |-> region.file, page_num |-> page_num]

\* C11: on a page of extract_images with exactly one image, exactly one
\* Figure caption, below the image at a gap smaller than a quarter of the page
\* height, and no Table caption, the image gives a Figure region named by the
\* caption's ordinal, from max(0, image top - 10) to
\* min(page height, caption bottom + 10) over the full page width, and once it
\* is saved it is the only file of the page.
C11_SingleFigureScenario ==
  ( /\ op = Images
    /\ ImageRegion
    /\ Len(image_list) = 1
    /\ Len(figure_captions) = 1
    /\ table_captions = <<>>
    /\ figure_captions[1].bbox[2] >= region.anchor[4]
    /\ 4 * (figure_captions[1].bbox[2] - region.anchor[4]) < page_height )
  => /\ region.res.kind = "figure"
     /\ region.res.num = figure_captions[1].num
     /\ region.file = [kind |-> "figure", num |-> figure_captions[1].num, page |-> 0]
     /\ region.res.final_bbox =
          << 0, Max(0, region.anchor[2] - 10), page_width,
             Min(page_height, figure_captions[1].bbox[4] + 10) >>
     /\ Rasterized
     /\ region.outcome = "saved" =>
          { f \in files : f.page_num = page_num } = {FileOfRegion}

\* C11 witness: the image (50,100,300,400) with "Figure 2: results" at
\* (50,410,300,430) on a page of height 800 was saved as figure_2.png with
\* the span 90..440.
C11_Witness ==
  /\ op = Images
  /\ Len(image_list) = 1
  /\ region.src = "image"
  /\ region.anchor = ImageA
  /\ Len(figure_captions) = 1
  /\ figure_captions[1].bbox = CaptionA
  /\ table_captions = <<>>
  /\ page_height = 800
  /\ region.outcome = "saved"
  /\ region.file = [kind |-> "figure", num |-> <<"2">>, page |-> 0]
  /\ region.res.final_bbox = <<0, 90, 600, 440>>
  /\ FileOfRegion \in files

\* no Figure caption and no Table caption of the page is near the image of
\* the region (an image whose box was not found has none)
Uncaptioned ==
  /\ region.src = "image"
  /\ region.outcome # "unpack_error"
  /\ region.anchor # NoBox =>
       /\ \A c \in CaptionsOf(figure_captions) :
            ~WithinQuarter(c.bbox, region.anchor[2], region.anchor[4])
       /\ \A c \in CaptionsOf(table_captions) :
            ~WithinQuarter(c.bbox, region.anchor[2], region.anchor[4])

\* C12: a step of the image loop of extract_images on an image with no nearby
\* Figure caption and no nearby Table caption calls no get_pixmap, leaves the
\* output directory and img_count as they are and names no file; and every
\* region the loop makes is a figure, a table or nothing.
C12_SkipUncaptioned ==
  [][ img_index' = img_index + 1 =>
        /\ region'.res.kind \in {"figure", "table", "none"}
        /\ Uncaptioned' =>
             /\ region'.outcome \notin Outcomes
             /\ region'.res.kind = "none"
             /\ region'.file = NoFile
             /\ files' = files
             /\ img_count' = img_count ]_vars

\* C12 witness: a page with captions, none of them near the image, whose
\* image was skipped.
C12_Witness ==
  /\ ImageRegion
  /\ Uncaptioned
  /\ figure_captions # <<>>
  /\ region.outcome = "skipped"

\* the names of the files of the output directory
FileNames == { f.name : f \in files }

\* C13: a save writes the file of the current page; where names carry no
\* page (every operation but pdfParser.py's extract_figures_and_tables) it
\* leaves exactly one file of that kind and ordinal, that of the current page;
\* where names carry the page, the files of the other pages all remain, under
\* other names.
C13_NamingCollisions ==
  [][ \A f \in files' \ files :
        /\ f.page_num = page_num
        /\ op # FiguresAndTablesPaged =>
             /\ f.name.page = 0
             /\ \A g \in files' :
                  (g.name.kind = f.name.kind /\ g.name.num = f.name.num) => g = f
        /\ op = FiguresAndTablesPaged =>
             /\ f.name.page = page_num + 1
             /\ \A g \in files : g.page_num # page_num => (g \in files' /\ g.name # f.name)
    ]_vars

\* C13 witness: extract_figures_and_tables of parser.py saved figure 2 on the
\* first page and again on the second, and one file, that of the second page,
\* is left.
C13_Witness ==
  /\ op = FiguresAndTables
  /\ page_num = 1
  /\ region.outcome = "saved"
  /\ figure_count = 2
  /\ files = {[name |-> [kind |-> "figure", num |-> <<"2">>, page |-> 0], page_num |-> 1]}

\* C13 witness of the page-qualified names: figure 2 of the first page and
\* figure 2 of the second page are both in the output directory.
C13_WitnessPaged ==
  /\ op = FiguresAndTablesPaged
  /\ [name |-> [kind |-> "figure", num |-> <<"2">>, page |-> 1], page_num |-> 0] \in files
  /\ [name |-> [kind |-> "figure", num |-> <<"2">>, page |-> 2], page_num |-> 1] \in files

\* C14: when an operation has run twice on the same PDF into the same output
\* directory, the second run has saved exactly the names the first run saved,
\* and the directory holds exactly the names it held after the first run.
C14_NamingIdempotence ==
  (run = 2 /\ pc \in {"done", "raised"}) =>
    /\ written = first.written
    /\ FileNames = { f.name : f \in first.files }

\* C14 witness: a second run that has saved files is over.
C14_Witness ==
  /\ run = 2
  /\ pc = "done"
  /\ written # {}
  /\ \E f \in files : f.page_num = 1

\* C15: an iteration of the image loop or of a caption loop that fails (a
\* box that does not unpack, a rasterization error, a save error) writes
\* nothing and counts nothing, and the run goes on exactly as after an
\* iteration that succeeds: to the next image or caption of the page, then to
\* the next loop, then to the end of the page; and the end of a page leads to
\* the next page while there is one.
C15_FailureIsolation ==
  [][ /\ (pc \in {"images", "figures", "tables"} /\ region'.outcome \in Failures) =>
           /\ files' = files
           /\ <<figure_count, table_count, img_count>>' = <<figure_count, table_count, img_count>>
           /\ doc' = doc /\ page_num' = page_num /\ page' = page
           /\ pc = "images" =>
                /\ img_index' = img_index + 1
                /\ pc' = IF img_index + 1 < Len(image_list) THEN "images" ELSE "endpage"
           /\ pc = "figures" =>
                pc' = IF cap_index + 1 < Len(figure_captions) THEN "figures"
                      ELSE IF table_captions # <<>> THEN "tables" ELSE "endpage"
           /\ pc = "tables" =>
                pc' = IF cap_index + 1 < Len(table_captions) THEN "tables" ELSE "endpage"
           /\ pc' = pc => (cap_index' = cap_index + 1 \/ img_index' = img_index + 1)
      /\ pc = "endpage" =>
           pc' = IF page_num + 1 < num_pages THEN "page" ELSE "finish"
    ]_vars

\* C15 witness: of two Figure captions of a page the first has a box that
\* does not unpack, and the second was saved after it.
C15_Witness ==
  /\ op \in CaptionFirstOps
  /\ Len(figure_captions) = 2
  /\ ~Unpacks(figure_captions[1].bbox)
  /\ region.src = "figure_caption"
  /\ region.idx = figure_captions[2].block_idx
  /\ region.outcome = "saved"
  /\ figure_count = 1

\* the files load_from_directory is done with
Finished == 1..file_idx

\* the calls made for file i
StagesOf(i) == { s[2] : s \in { t \in stages : t[1] = i } }

\* C16: a PDF that cannot be opened is skipped: neither extract_images nor
\* _parse_pdf (nor anything after the call that first tried to open it) is
\* run on it, nothing is appended to the returned list for it, and the loop
\* goes on to the end of the file list.
C16_OpenFailureSkipsDocument ==
  /\ \A i \in 1..Len(pdf_files) :
       pdf_files[i].corrupt =>
         /\ StagesOf(i) \subseteq
              {"extract_figures_and_tables", "_load_pdf", "logging.error"}
         /\ \A k \in 1..Len(documents) : documents[k] # i
  /\ (lpc = "returned" => file_idx = Len(pdf_files))

\* C17: whatever fails inside figure/table/image extraction, creation of the
\* output directory included, the text parse is still run for that PDF: every
\* PDF the loop of parser.py or pdfParser.py is done with and did not filter
\* out has had _parse_pdf called on it, and load_from_directory has not
\* raised once it had its file list.
C17_ExtractionNeverCostsDocument ==
  variant # LoaderPy =>
    /\ \A i \in Finished :
         ~IsOutputPdf(pdf_files[i]) => "_parse_pdf" \in StagesOf(i)
    /\ (pdf_files # <<>> => lpc # "raised")

\* C18: in every Parser variant, the files skipped are exactly those whose
\* own file name contains "_output.pdf": a file the loop is done with has had
\* a call made for it if and only if its name lacks that text, whatever its
\* parent directories are called; and every file of the list is a *.pdf.
C18_InputFilter ==
  /\ \A i \in Finished :
       (StagesOf(i) # {}) <=> ~Contains(pdf_files[i].name, OutputMark)
  /\ \A i \in 1..Len(pdf_files) : EndsWith(pdf_files[i].name, <<".","p","d","f">>)

\* a step of one of the region loops of a page
InRegionLoop == pc \in {"images", "figures", "tables"}

\* pages are taken in increasing index, and a file saved in a step belongs to
\* the page being processed
PageOrder ==
  /\ page_num' \in {page_num, page_num + 1}
  /\ \A f \in files' \ files : f.page_num = page_num

\* C19 as stated: pages in increasing index with every save on the current
\* page, and within a page every region processed comes later in the page's
\* image list or block list than the region processed before it, so that a
\* Table caption block preceding a Figure caption block is rasterized first.
C19_DiscoveryOrder ==
  [][ /\ PageOrder
      /\ (InRegionLoop /\ region.src # "none") => region.idx < region'.idx
    ]_vars

\* C19 amended: pages in increasing index with every save on the current
\* page; the images of a page are processed in image-list order; in the
\* caption-anchored mode all Figure captions of the page are processed
\* first, in block order, and only then all its Table captions, in block
\* order, wherever the Table caption blocks stand among the Figure ones.
C19_ProcessingOrder ==
  [][ /\ PageOrder
      /\ InRegionLoop =>
           /\ region'.src = "image" => region'.idx = img_index
           /\ (region.src # "none" /\ region.src = region'.src) =>
                region.idx < region'.idx
           /\ region.src = "table_caption" => region'.src = "table_caption"
           /\ (region.src = "none" /\ region'.src = "figure_caption") =>
                region'.idx = figure_captions[1].block_idx
           /\ (region.src # "table_caption" /\ region'.src = "table_caption") =>
                /\ region'.idx = table_captions[1].block_idx
                /\ figure_captions # <<>> =>
                     /\ region.src = "figure_caption"
                     /\ region.idx = figure_captions[Len(figure_captions)].block_idx
    ]_vars

\* C19 witness: the first block of the page is a Table caption and the
\* second a Figure caption; the figure has been saved and the table is
\* saved after it.
C19_Witness ==
  /\ op \in CaptionFirstOps
  /\ Len(figure_captions) = 1
  /\ figure_captions[1].block_idx = 1
  /\ figure_count = 1
  /\ region.src = "table_caption"
  /\ region.idx = 0
  /\ region.outcome = "saved"

\* C20: a document opened by an ingestion operation is closed by the time
\* the operation exits, whether it returns or raises.
C20_DocumentReleased == pc \in {"done", "raised"} => doc # "open"

\* C21: between the iterations of a region loop no pixel buffer is referenced
\* (the buffer of a region is released right after its save, also when the
\* save fails), and when the page loop is about to load a page, the page
\* object and the text-block dictionary with the lists made from it have
\* been released.
C21_PageScopedMemory ==
  /\ pix = "none"
  /\ pc = "page" => (page = "none" /\ page_dict = "none")

\* the positions of the entries of an image-info list that carry xref
OwnEntries(info, xref) == { k \in 1..Len(info) : info[k].xref = xref }

\* the positions of the image-typed blocks of a block list
ImageBlocks(bs) == { k \in 1..Len(bs) : bs[k].type = 1 }

\* the image region r was anchored without an image-info entry of its own
LacksEntry(r) == r.src = "image" /\ OwnEntries(r.info, image_list[r.idx + 1]) = {}

\* C22: in extract_images the anchor box of an image is the box of the first
\* image-info entry with the image's xref; if there is none, the box of the
\* first image-typed block of the page; if there is none either, the image
\* is passed over without an error and without a file.  Two images of a page
\* processed one after the other without an entry get the same anchor.
C22_ImageBoxLookup ==
  [][ pc = "images" =>
        LET own  == OwnEntries(region'.info, image_list[img_index + 1])
            imgs == ImageBlocks(blocks)
        IN  /\ region'.src = "image"
            /\ own # {} => region'.anchor = region'.info[SetMin(own)].bbox
            /\ (own = {} /\ imgs # {}) => region'.anchor = blocks[SetMin(imgs)].bbox
            /\ (own = {} /\ imgs = {}) =>
                 /\ region'.anchor = NoBox
                 /\ region'.outcome = "no_bbox"
                 /\ files' = files
                 /\ img_count' = img_count
                 /\ pc' = IF img_index + 1 < Len(image_list) THEN "images" ELSE "endpage"
            /\ (LacksEntry(region) /\ own = {}) => region'.anchor = region.anchor
    ]_vars

\* C22 witness: the second image of a page has no image-info entry of its
\* own (the list holds the entry of another image), is anchored at the box
\* of the page's image block and saved; the first image was saved to the
\* same file.
C22_Witness ==
  /\ op = Images
  /\ region.src = "image"
  /\ region.idx = 1
  /\ region.info # <<>>
  /\ LacksEntry(region)
  /\ ImageBlocks(blocks) # {}
  /\ region.anchor = blocks[SetMin(ImageBlocks(blocks))].bbox
  /\ region.outcome = "saved"
  /\ img_count = 2
  /\ Cardinality(files) = 1

\* the text of block i as the detector of the operation reads it
DetectorText(i) == IF op = Images THEN blocks[i + 1].text ELSE Strip(blocks[i + 1].text)

\* the Table test of the detector of the operation
TableTest(i) ==
  IF op = Images THEN AfterNumber(DetectorText(i), TableKeyword) # {}
  ELSE MatchesCaptionPatterns(DetectorText(i), TableKeyword)

\* C23: whenever the text of a block passes the classification test of a
\* detector, the ordinal search on it matches too: no caption of either list
\* carries the ordinal "unknown", and a block that passes the Figure test
\* (or, failing it, the Table test) is in the list of that kind, in
\* extract_images as well.
C23_UnknownUnreachable ==
  /\ \A k \in 1..Len(figure_captions) : figure_captions[k].num \notin {Unknown, NoMatch}
  /\ \A k \in 1..Len(table_captions) : table_captions[k].num \notin {Unknown, NoMatch}
  /\ \A i \in Scanned :
       /\ FigureTest(op, blocks[i + 1].text) =>
            (i \in FigureIdx /\ FigureOrdinal(DetectorText(i)) # NoMatch)
       /\ (~FigureTest(op, blocks[i + 1].text) /\ TableTest(i)) =>
            (i \in TableIdx /\ TableOrdinal(DetectorText(i)) # NoMatch)

\* C23 witness: extract_tables has passed a block matching a Table pattern
\* and extract_images one passing its Figure test; each is in its list with
\* an ordinal.
C23_Witness ==
  /\ op \in {Tables, Images}
  /\ Len(blocks) = 2
  /\ block_idx = 2
  /\ Scanned = {0, 1}
  /\ op = Tables => (TableTest(0) /\ TableTest(1) /\ Len(table_captions) = 2)
  /\ op = Images => (FigureTest(op, blocks[1].text) /\ TableTest(1)
                       /\ Len(figure_captions) = 1 /\ Len(table_captions) = 1)

\* the positions, in a caption list, of the captions nearby the box
NearbyAt(captions, bbox) ==
  { k \in 1..Len(captions) : IsNearby(captions[k].bbox, bbox[2], bbox[4], page_height) }

\* the captions of the kind chosen for the image region r
CaptionsOfKind(r) == IF r.res.kind = "figure" THEN figure_captions ELSE table_captions

FileNamesOf(fs) == { f.name : f \in fs }

\* C24: in extract_images an image with nearby captions is named by the
\* ordinal of the first nearby caption of the chosen kind in block order,
\* its box spans the image and all nearby captions of that kind, and a save
\* writes exactly one file, of that name.
C24_FirstNearbyOrdinal ==
  [][ (pc = "images" /\ region'.res.kind # "none") =>
        LET r    == region'
            caps == CaptionsOfKind(r)
            near == NearbyAt(caps, r.anchor)
        IN  /\ near # {}
            /\ r.res.num = caps[SetMin(near)].num
            /\ r.file = [kind |-> r.res.kind, num |-> caps[SetMin(near)].num, page |-> 0]
            /\ r.res.top = SetMin({r.anchor[2]} \cup { caps[k].bbox[2] : k \in near })
            /\ r.res.bottom = SetMax({r.anchor[4]} \cup { caps[k].bbox[4] : k \in near })
            /\ r.outcome = "saved" =>
                 /\ r.file \in FileNamesOf(files')
                 /\ FileNamesOf(files') = FileNamesOf(files) \cup {r.file}
                 /\ img_count' = img_count + 1
            /\ r.outcome # "saved" => files' = files
    ]_vars

\* C24 witness: an image has two nearby Figure captions with different
\* ordinals, the first of them in block order further from the image than
\* the second; the region was saved under the ordinal of the first.
C24_Witness ==
  /\ op = Images
  /\ region.src = "image"
  /\ region.outcome = "saved"
  /\ region.res.kind = "figure"
  /\ Len(region.res.nearby_figure) = 2
  /\ region.res.nearby_figure[1].num # region.res.nearby_figure[2].num
  /\ Gap(region.res.nearby_figure[1].bbox, region.anchor)
       > Gap(region.res.nearby_figure[2].bbox, region.anchor)
  /\ region.file.num = region.res.nearby_figure[1].num

Reverse(s) == [k \in 1..Len(s) |-> s[Len(s) + 1 - k]]

\* the image region of the state, resolved with both caption lists reversed
ResolvedReversed ==
  ResolveImage(region.anchor, Reverse(figure_captions), Reverse(table_captions),
               page_width, page_height)

\* an image region with a kind: its anchor unpacks and it has nearby captions
KindedImageRegion == region.src = "image" /\ region.res.kind # "none"

\* the region spans the image and exactly the captions of its kind that are
\* nearby the image's original box, and its kind and box are the same with
\* the captions in the reverse order
NoChaining ==
  LET caps == CaptionsOfKind(region)
      near == NearbyAt(caps, region.anchor)
  IN  /\ region.res.top = SetMin({region.anchor[2]} \cup { caps[k].bbox[2] : k \in near })
      /\ region.res.bottom = SetMax({region.anchor[4]} \cup { caps[k].bbox[4] : k \in near })
      /\ ResolvedReversed.kind = region.res.kind
      /\ ResolvedReversed.final_bbox = region.res.final_bbox

\* C25 as stated: the nearby set is taken once against the image's original
\* box, a caption nearby only the widened box is not included, and the
\* result (kind, box and ordinal) does not depend on the order of the
\* captions.
C25_OrderIndependentResult ==
  KindedImageRegion => (NoChaining /\ ResolvedReversed.num = region.res.num)

\* C25 amended: the nearby set is taken once against the image's original
\* box, a caption nearby only the widened box is not included, and the kind
\* and the box of the region do not depend on the order of the captions (the
\* ordinal does).
C25_NoTransitiveChaining == KindedImageRegion => NoChaining

\* C25 witness: the image has a Figure caption 10 below it and another one
\* 210 below it, which is 180 below the first; the region ends at the first.
C25_Witness ==
  /\ op = Images
  /\ KindedImageRegion
  /\ region.anchor = ImageA
  /\ Len(figure_captions) = 2
  /\ figure_captions[1].bbox = CaptionA
  /\ figure_captions[2].bbox = CaptionFar
  /\ ~IsNearby(CaptionFar, ImageA[2], ImageA[4], page_height)
  /\ IsNearby(CaptionFar, region.res.top, region.res.bottom, page_height)
  /\ region.res.bottom = CaptionA[4]
  /\ region.outcome = "saved"

Counters == <<figure_count, table_count, img_count>>

\* the counter that a saved region of the operation adds to
CounterOf(r) ==
  IF r.src = "image" THEN "img_count"
  ELSE IF r.src = "figure_caption" THEN "figure_count"
  ELSE "table_count"

\* C28: the counters count the saves that succeeded: a step that saves a
\* region adds one to the counter of that region and leaves the other two,
\* every other step (a failed render or save, a skipped image, the end of a
\* page) leaves all three, and no step lowers one.
C28_CountersCountSaves ==
  [][ /\ figure_count' >= figure_count
      /\ table_count' >= table_count
      /\ img_count' >= img_count
      /\ IF InRegionLoop /\ region'.outcome = "saved"
           THEN /\ figure_count' = figure_count
                                     + (IF CounterOf(region') = "figure_count" THEN 1 ELSE 0)
                /\ table_count' = table_count
                                    + (IF CounterOf(region') = "table_count" THEN 1 ELSE 0)
                /\ img_count' = img_count
                                  + (IF CounterOf(region') = "img_count" THEN 1 ELSE 0)
                /\ files' # {}
           ELSE Counters' = Counters
    ]_vars

\* C28 witness: on the second page of a document extract_images has saved
\* its second region over the file of the first: two saves counted across
\* the pages, one file.
C28_Witness ==
  /\ op = Images
  /\ page_num = 1
  /\ region.src = "image"
  /\ region.outcome = "saved"
  /\ img_count = 2
  /\ Cardinality(files) = 1
  /\ Cardinality(written) = 1

\* the text parse of file i was run and did not raise
ParseSucceeded(i) ==
  /\ StagesOf(i) \cap {"_parse_pdf", "_load_pdf"} # {}
  /\ "logging.error" \notin StagesOf(i)

\* the sequence of the elements of 1..n that satisfy ParseSucceeded, in order
RECURSIVE SucceededUpTo(_)
SucceededUpTo(n) ==
  IF n = 0 THEN <<>>
  ELSE IF ParseSucceeded(n) THEN Append(SucceededUpTo(n - 1), n)
  ELSE SucceededUpTo(n - 1)

\* C29: load_from_directory raises exactly when the path is not a
\* directory, and has then processed nothing; otherwise it returns the
\* list of the documents of the PDFs whose text parse succeeded, one entry
\* each in the order of enumeration, no entry for a PDF that was skipped or
\* whose parse failed, and the empty list when no PDF was found.
C29_LoadResult ==
  /\ lpc = "raised" => (dir_path # "directory" /\ stages = {} /\ documents = <<>>)
  /\ dir_path # "directory" => lpc \in {"start", "raised"}
  /\ documents = SucceededUpTo(file_idx)
  /\ lpc = "returned" =>
       /\ file_idx = Len(pdf_files)
       /\ pdf_files = <<>> => documents = <<>>

\* C29 witness: of two PDFs enumerated, the parse of the first was run and
\* failed; the list returned holds the document of the second only.
C29_Witness ==
  /\ lpc = "returned"
  /\ Len(pdf_files) = 2
  /\ "_parse_pdf" \in StagesOf(1)
  /\ "logging.error" \in StagesOf(1)
  /\ documents = <<2>>

(***************************************************************************)
(* C26: the two extraction passes of one PDF.                              *)
(***************************************************************************)
\* the save of operation o on the PDF of index i
Saver(o, i) == [op |-> o, file |-> i]

\* the files of the directory that bear the name n
FilesNamed(n) == { f \in files : f.name = n }

\* C26: for each PDF the caption-anchored pass is complete before the
\* image-anchored pass starts; in parser.py both passes write names of kind
\* and ordinal alone into the one directory, so that after both passes every
\* name the image pass saved is one file, holding the region of the image
\* pass; in pdfParser.py no name is saved by both kinds of pass.
C26_PassOverwrite ==
  /\ lpc = "figures_and_tables" =>
       /\ op \in CaptionFirstOps
       /\ \A s \in saved_by : Saver(Images, file_idx) \notin s.savers
  /\ lpc = "images" =>
       /\ op = Images
       /\ <<file_idx + 1, "extract_figures_and_tables">> \in stages
  /\ variant = ParserPy =>
       /\ \A s \in saved_by : s.name.page = 0
       /\ lpc = "parse" =>
            \A s \in saved_by :
              Saver(Images, file_idx) \in s.savers =>
                /\ s.holder = Saver(Images, file_idx)
                /\ Cardinality(FilesNamed(s.name)) = 1
  /\ variant = PdfParserPy =>
       \A s \in saved_by : \A a, b \in s.savers : (a.op = Images) = (b.op = Images)

\* parser.py: both passes of one PDF have saved the same name, and the file
\* is that of the image pass
C26_Witness ==
  /\ variant = ParserPy
  /\ lpc = "parse"
  /\ \E s \in saved_by :
       /\ Saver(FiguresAndTables, file_idx) \in s.savers
       /\ s.holder = Saver(Images, file_idx)

(***************************************************************************)
(* C27: the PDFs of one batch write into one directory.                    *)
(***************************************************************************)
\* the PDFs of the batch that saved the name of the record s
SavingFiles(s) == { v.file : v \in s.savers }

\* C27: a name is made of kind, ordinal and (pdfParser.py's caption pass)
\* page alone, so the PDFs of a batch that yield the same ones save the same
\* name: the directory has one file of it, and it holds the region of the
\* PDF processed last among those that saved it.
C27_CrossDocumentCollisions ==
  \A s \in saved_by :
    /\ DOMAIN s.name = {"kind", "num", "page"}
    /\ Cardinality(FilesNamed(s.name)) = 1
    /\ s.holder \in s.savers
    /\ s.holder.file = SetMax(SavingFiles(s))

\* the batch is over; the first two PDFs both saved one name, and the file
\* holds the region of the second
C27_Witness ==
  /\ lpc = "returned"
  /\ \E s \in saved_by :
       /\ {0, 1} \subseteq SavingFiles(s)
       /\ s.holder.file = 1

====
